---- MODULE Spec2Model ----
(***************************************************************************)
(* Vibecraft Village: the village state machine (VillageContext reducer    *)
(* and the useEventSubscription handlers), the scenario generator pipeline *)
(* with its scenarios.json catalog, and the planner-to-renderer location   *)
(* order.                                                                  *)
(*                                                                         *)
(* Conventions: a JavaScript null is the string NULL, undefined is the     *)
(* string UNDEFINED; zoom is held in tenths (10 = zoom 1).                 *)
(***************************************************************************)
EXTENDS Integers, Sequences, FiniteSets, TLC

NULL == "null"
UNDEFINED == "undefined"

(***************************************************************************)
(* Bounds of the model.                                                    *)
(***************************************************************************)
\* toolUseId values carried by events are 1..MaxToolUseIds
MaxToolUseIds == 2

ToolUseIds == 1..MaxToolUseIds
SessionIds == {"s1", "s2"}
\* toolInput.description of a Task event: missing, empty, or a text
Descriptions == {UNDEFINED, "", "explore"}

(***************************************************************************)
(* config/locations                                                        *)
(***************************************************************************)
VillageLocationType ==
    {"library", "cottage", "workshop", "terminal", "observatory",
     "signal_tower", "town_hall", "notice_board", "square"}

TOOL_TO_LOCATION ==
    [Read |-> "library", Write |-> "cottage", Edit |-> "workshop",
     Bash |-> "terminal", Grep |-> "observatory", Glob |-> "observatory",
     WebFetch |-> "signal_tower", WebSearch |-> "signal_tower",
     Task |-> "town_hall", TodoWrite |-> "notice_board",
     AskUserQuestion |-> "square", NotebookEdit |-> "cottage"]

\* Property names every object literal inherits from Object.prototype: looking
\* one of them up in TOOL_TO_LOCATION yields a function, which is not nullish.
ObjectPrototypeKeys == {"constructor", "toString", "hasOwnProperty", "valueOf"}
INHERITED == "<inherited member>"

getLocationForTool_DefaultLibrary(tool) ==
    IF tool \in DOMAIN TOOL_TO_LOCATION THEN TOOL_TO_LOCATION[tool]
    ELSE IF tool \in ObjectPrototypeKeys THEN INHERITED
    ELSE "library"

\* TOOL_TO_LOCATION[tool] ?? 'square'
getLocationForTool(tool) ==
    IF tool \in DOMAIN TOOL_TO_LOCATION THEN TOOL_TO_LOCATION[tool]
    ELSE IF tool \in ObjectPrototypeKeys THEN INHERITED
    ELSE "square"

\* Every tool name of the table, one the table does not know, and the empty name.
Tools == DOMAIN TOOL_TO_LOCATION \cup {"MultiEdit", ""}

\* Tool names carried by the events of the model: two of the table mapped to
\* buildings, Task, one the table maps to the square and one it does not know.
EventTools == {"Read", "Bash", "Task", "AskUserQuestion", "MultiEdit"}

(***************************************************************************)
(* state/VillageContext: initial state, action creators, reducer           *)
(***************************************************************************)
initialState ==
    [character |-> [location |-> "square",
                    previousLocation |-> NULL,
                    state |-> "idle",
                    isMoving |-> FALSE,
                    currentTool |-> NULL,
                    sessionId |-> NULL],
     subagents |-> << >>,
     activeLocation |-> NULL,
     soundEnabled |-> TRUE,
     showLabels |-> TRUE,
     zoom |-> 10]

\* villageActions
moveToLocation(location) ==
    [type |-> "MOVE_TO_LOCATION", payload |-> [location |-> location]]
setCharacterState(newState, tool) ==
    [type |-> "SET_CHARACTER_STATE", payload |-> [state |-> newState, tool |-> tool]]
finishMoving == [type |-> "FINISH_MOVING"]
setSession(sessionId) ==
    [type |-> "SET_SESSION", payload |-> [sessionId |-> sessionId]]
spawnSubagent(subagent) == [type |-> "SPAWN_SUBAGENT", payload |-> subagent]
removeSubagent(toolUseId) ==
    [type |-> "REMOVE_SUBAGENT", payload |-> [toolUseId |-> toolUseId]]
setActiveLocation(location) ==
    [type |-> "SET_ACTIVE_LOCATION", payload |-> [location |-> location]]
toggleSound == [type |-> "TOGGLE_SOUND"]
toggleLabels == [type |-> "TOGGLE_LABELS"]
setZoom(zoom) == [type |-> "SET_ZOOM", payload |-> [zoom |-> zoom]]
reset == [type |-> "RESET"]

Max(a, b) == IF a >= b THEN a ELSE b
Min(a, b) == IF a <= b THEN a ELSE b

\* Mutant: the no-op test for the current location is missing.
MOVE_TO_LOCATION_NoGuard(s, location) ==
    [s EXCEPT !.character = [@ EXCEPT !.previousLocation = s.character.location,
                                      !.location = location,
                                      !.isMoving = TRUE],
              !.activeLocation = location]

MOVE_TO_LOCATION(s, location) ==
    IF location = s.character.location THEN s
    ELSE [s EXCEPT !.character = [@ EXCEPT !.previousLocation = s.character.location,
                                           !.location = location,
                                           !.isMoving = TRUE],
                   !.activeLocation = location]

\* Mutant: the state is stored but the tool is dropped.
SET_CHARACTER_STATE_DropTool(s, newState, tool) ==
    [s EXCEPT !.character = [@ EXCEPT !.state = newState]]

SET_CHARACTER_STATE(s, newState, tool) ==
    [s EXCEPT !.character =
        [@ EXCEPT !.state = newState,
                  !.currentTool = IF tool \in {UNDEFINED, NULL}
                                  THEN s.character.currentTool ELSE tool]]

FINISH_MOVING(s) == [s EXCEPT !.character = [@ EXCEPT !.isMoving = FALSE]]

SET_SESSION(s, sessionId) ==
    [s EXCEPT !.character = [@ EXCEPT !.sessionId = sessionId]]

\* Mutant: the duplicate test is missing.
SPAWN_SUBAGENT_NoDuplicateCheck(s, subagent) ==
    [s EXCEPT !.subagents = Append(@, subagent)]

SPAWN_SUBAGENT(s, subagent) ==
    IF \E i \in DOMAIN s.subagents : s.subagents[i].toolUseId = subagent.toolUseId
    THEN s
    ELSE [s EXCEPT !.subagents = Append(@, subagent)]

\* Mutant: only the first sub-agent is ever considered for removal.
REMOVE_SUBAGENT_HeadOnly(s, toolUseId) ==
    [s EXCEPT !.subagents =
        IF @ # << >> /\ Head(@).toolUseId = toolUseId THEN Tail(@) ELSE @]

REMOVE_SUBAGENT(s, toolUseId) ==
    LET keep(sub) == sub.toolUseId # toolUseId
    IN [s EXCEPT !.subagents = SelectSeq(@, keep)]

SET_ACTIVE_LOCATION(s, location) == [s EXCEPT !.activeLocation = location]

TOGGLE_SOUND(s) == [s EXCEPT !.soundEnabled = ~@]

TOGGLE_LABELS(s) == [s EXCEPT !.showLabels = ~@]

\* the number NaN, which no comparison holds for; every other number of the
\* model is an integer above it
NaN == -1000000

\* Math.max and Math.min: NaN as soon as an argument is NaN
Math_max(a, b) == IF a = NaN \/ b = NaN THEN NaN ELSE Max(a, b)
Math_min(a, b) == IF a = NaN \/ b = NaN THEN NaN ELSE Min(a, b)

\* Math.max(0.5, Math.min(2, zoom)), in tenths
SET_ZOOM(s, zoom) == [s EXCEPT !.zoom = Math_max(5, Math_min(20, zoom))]

RESET(s) == initialState

villageReducer(s, action) ==
    CASE action.type = "MOVE_TO_LOCATION" -> MOVE_TO_LOCATION(s, action.payload.location)
      [] action.type = "SET_CHARACTER_STATE" ->
            SET_CHARACTER_STATE(s, action.payload.state, action.payload.tool)
      [] action.type = "FINISH_MOVING" -> FINISH_MOVING(s)
      [] action.type = "SET_SESSION" -> SET_SESSION(s, action.payload.sessionId)
      [] action.type = "SPAWN_SUBAGENT" -> SPAWN_SUBAGENT(s, action.payload)
      [] action.type = "REMOVE_SUBAGENT" -> REMOVE_SUBAGENT(s, action.payload.toolUseId)
      [] action.type = "SET_ACTIVE_LOCATION" ->
            SET_ACTIVE_LOCATION(s, action.payload.location)
      [] action.type = "TOGGLE_SOUND" -> TOGGLE_SOUND(s)
      [] action.type = "TOGGLE_LABELS" -> TOGGLE_LABELS(s)
      [] action.type = "SET_ZOOM" -> SET_ZOOM(s, action.payload.zoom)
      [] action.type = "RESET" -> RESET(s)
      [] OTHER -> s


(***************************************************************************)
(* State of the village                                                    *)
(***************************************************************************)
VARIABLES
    state,      \* the VillageState held by useReducer
    last,       \* history: the event or reducer action handled last
    openTasks   \* history: toolUseIds of Task pre_tool_use events not yet
                \* followed by their post_tool_use or by a RESET

villageVars == <<state, last, openTasks>>

\* same: the location asked for was the character's location before the step;
\* dup: the toolUseId asked for was a sub-agent's before the step.
Last(type, tool, toolUseId, location, same, dup) ==
    [type |-> type, tool |-> tool, toolUseId |-> toolUseId, location |-> location,
     same |-> same, dup |-> dup]

NoLast == Last("none", NULL, 0, NULL, FALSE, FALSE)

InitVillage ==
    /\ state = initialState
    /\ last = NoLast
    /\ openTasks = {}

SubagentIds(s) == {s.subagents[i].toolUseId : i \in DOMAIN s.subagents}

(***************************************************************************)
(* hooks/useEventSubscription: one action per event handler.  The          *)
(* dispatches of one handler are applied to the reducer in order.          *)
(***************************************************************************)
\* Mutant: the Task branch that spawns the sub-agent is missing.
pre_tool_use_state_NoSpawn(s, event) ==
    LET location == getLocationForTool(event.tool)
        s1 == villageReducer(s, moveToLocation(location))
        s2 == villageReducer(s1, setCharacterState("working", event.tool))
    IN villageReducer(s2, setSession(event.sessionId))

pre_tool_use_state(s, event) ==
    LET location == getLocationForTool(event.tool)
        s1 == villageReducer(s, moveToLocation(location))
        s2 == villageReducer(s1, setCharacterState("working", event.tool))
        s3 == villageReducer(s2, setSession(event.sessionId))
        subagent == [id |-> event.toolUseId,
                     toolUseId |-> event.toolUseId,
                     \* input.description || 'Subagent'
                     description |-> IF event.toolInput.description \in {UNDEFINED, NULL, ""}
                                     THEN "Subagent"
                                     ELSE event.toolInput.description,
                     location |-> "town_hall",
                     state |-> "working"]
    IN IF event.tool = "Task" THEN villageReducer(s3, spawnSubagent(subagent)) ELSE s3

post_tool_use_state(s, event) ==
    LET s1 == villageReducer(s, setCharacterState("thinking", UNDEFINED))
    IN IF event.tool = "Task"
       THEN villageReducer(s1, removeSubagent(event.toolUseId))
       ELSE s1

\* Mutant: the character is set idle without being moved back.
stop_state_NoMove(s) == villageReducer(s, setCharacterState("idle", UNDEFINED))

stop_state(s) ==
    LET s1 == villageReducer(s, moveToLocation("square"))
    IN villageReducer(s1, setCharacterState("idle", UNDEFINED))

user_prompt_submit_state(s) == villageReducer(s, setCharacterState("thinking", UNDEFINED))

\* The handlers read toolUseId and toolInput only when the tool is Task, and
\* post_tool_use never reads sessionId: an input the code does not read takes
\* one value.
PreToolUseEvents ==
    [type : {"pre_tool_use"}, tool : {"Task"}, sessionId : SessionIds,
     toolUseId : ToolUseIds, toolInput : [description : Descriptions]]
    \cup
    [type : {"pre_tool_use"}, tool : EventTools \ {"Task"}, sessionId : SessionIds,
     toolUseId : {1}, toolInput : [description : {UNDEFINED}]]

PostToolUseEvents ==
    [type : {"post_tool_use"}, tool : {"Task"}, sessionId : {"s1"},
     toolUseId : ToolUseIds]
    \cup
    [type : {"post_tool_use"}, tool : EventTools \ {"Task"}, sessionId : {"s1"},
     toolUseId : {1}]

pre_tool_use(event) ==
    /\ state' = pre_tool_use_state(state, event)
    /\ last' = Last("pre_tool_use", event.tool, event.toolUseId,
                    getLocationForTool(event.tool),
                    getLocationForTool(event.tool) = state.character.location,
                    event.tool = "Task" /\ event.toolUseId \in SubagentIds(state))
    /\ openTasks' = IF event.tool = "Task" THEN openTasks \cup {event.toolUseId}
                    ELSE openTasks

post_tool_use(event) ==
    /\ state' = post_tool_use_state(state, event)
    /\ last' = Last("post_tool_use", event.tool, event.toolUseId, NULL, FALSE,
                    event.tool = "Task" /\ event.toolUseId \in SubagentIds(state))
    /\ openTasks' = IF event.tool = "Task" THEN openTasks \ {event.toolUseId}
                    ELSE openTasks

stop ==
    /\ state' = stop_state(state)
    /\ last' = Last("stop", NULL, 0, "square", state.character.location = "square", FALSE)
    /\ UNCHANGED openTasks

user_prompt_submit ==
    /\ state' = user_prompt_submit_state(state)
    /\ last' = Last("user_prompt_submit", NULL, 0, NULL, FALSE, FALSE)
    /\ UNCHANGED openTasks

\* ClaudeCharacter: the movement transition ended
FinishMoving ==
    /\ state.character.isMoving
    /\ state' = villageReducer(state, finishMoving)
    /\ last' = Last("FINISH_MOVING", NULL, 0, NULL, FALSE, FALSE)
    /\ UNCHANGED openTasks

Reset ==
    /\ state' = villageReducer(state, reset)
    /\ last' = Last("RESET", NULL, 0, NULL, FALSE, FALSE)
    /\ openTasks' = {}


(***************************************************************************)
(* The reducer on its own: any action, dispatched in any order.            *)
(***************************************************************************)
ReducerLocations == {"square", "library"}
ReducerStates == {"working"}
ReducerTools == {"Read"}
ReducerSessions == {"s1"}
\* SET_ZOOM payloads, in tenths: 0, 0.5, 1, 2, 5 and NaN
ZoomInputs == {0, 5, 10, 20, 50, NaN}
\* The reducer keys sub-agents by toolUseId and never reads id.
SubagentPayloads ==
    [id : {1}, toolUseId : ToolUseIds, description : {"Subagent"},
     location : {"town_hall"}, state : {"working"}]

Dispatch(action, toolUseId, location) ==
    /\ state' = villageReducer(state, action)
    /\ last' = Last(action.type, NULL, toolUseId, location,
                    location = state.character.location,
                    toolUseId \in SubagentIds(state))
    /\ UNCHANGED openTasks

DispatchMoveToLocation ==
    \E location \in ReducerLocations : Dispatch(moveToLocation(location), 0, location)

DispatchSetCharacterState ==
    \E newState \in ReducerStates, tool \in ReducerTools :
        Dispatch(setCharacterState(newState, tool), 0, NULL)

DispatchFinishMoving == Dispatch(finishMoving, 0, NULL)

DispatchSetSession ==
    \E sessionId \in ReducerSessions : Dispatch(setSession(sessionId), 0, NULL)

DispatchSpawnSubagent ==
    \E subagent \in SubagentPayloads :
        Dispatch(spawnSubagent(subagent), subagent.toolUseId, NULL)

DispatchRemoveSubagent ==
    \E toolUseId \in ToolUseIds : Dispatch(removeSubagent(toolUseId), toolUseId, NULL)

DispatchSetActiveLocation ==
    \E location \in {"library", NULL} :
        Dispatch(setActiveLocation(location), 0, NULL)

DispatchToggleSound == Dispatch(toggleSound, 0, NULL)

DispatchToggleLabels == Dispatch(toggleLabels, 0, NULL)

DispatchSetZoom == \E zoom \in ZoomInputs : Dispatch(setZoom(zoom), 0, NULL)

DispatchReset == Dispatch(reset, 0, NULL)

(***************************************************************************)
(* server/ScenarioGenerator: generateScenario                              *)
(*                                                                         *)
(* A run is suspended only at its awaits (planScenario, generateImage,     *)
(* stripBackground); the code between two awaits runs to completion on the *)
(* single-threaded event loop, so each action below is one such stretch.   *)
(***************************************************************************)
\* the plan's locations and agents arrays have at most this many entries
MaxPlanLocations == 6
MaxPlanAgents == 7
\* when two runs are in flight together their plans are kept this small
MaxRacePlanLocations == 1
MaxRacePlanAgents == 1
\* scenarios.json holds at most this many scenarios before a run
MaxCatalog == 2

TOTAL == 44

AGENT_STATES == <<"idle", "walking", "working", "thinking", "finished">>

Runs == {1, 2}

VARIABLES
    planned,    \* planned[r]: the plan the text service answers run r with
    run,        \* run[r]: the locals of generateScenario call r and where it waits
    catalog,    \* the file public/scenarios.json
    files,      \* the image files written under public/assets/generated
    nextUuid,   \* randomUUID(): the next value it returns, never one returned before
    concurrent  \* history: two calls have been awaiting at the same time

genVars == <<planned, run, catalog, files, nextUuid, concurrent>>

ScenarioId(planId, uuid) == [planId |-> planId, uuid |-> uuid]
NoId == ScenarioId(NULL, 0)

\* `${relBase}/scenario/background.png`, `${relBase}/locations/${i}.png`,
\* `${relBase}/agents/${i}/${stateName}.png`
Path(id, dir, index, name) == [id |-> id, dir |-> dir, index |-> index, name |-> name]
BackgroundPath(id) == Path(id, "scenario", 0, "background")
LocationPath(id, i) == Path(id, "locations", i, "png")
AgentPath(id, i, stateName) == Path(id, "agents", i, stateName)

\* scenarios.json as text: missing, not JSON, or a JSON document with its
\* defaultScenarioId, its scenarios and its layout (pretty-printed or not)
AbsentFile == [kind |-> "absent", defaultScenarioId |-> NULL, scenarios |-> << >>,
               pretty |-> FALSE]
MalformedFile == [kind |-> "malformed", defaultScenarioId |-> NULL, scenarios |-> << >>,
                  pretty |-> FALSE]
JsonFile(defaultScenarioId, scenarios, pretty) ==
    [kind |-> "json", defaultScenarioId |-> defaultScenarioId, scenarios |-> scenarios,
     pretty |-> pretty]

\* an entry that was in the catalog before the runs
SeedScenario(j) ==
    [id |-> ScenarioId("seed", j), name |-> "seed",
     background |-> BackgroundPath(ScenarioId("seed", j)),
     locations |-> << >>, agents |-> << >>]

SeedCatalogs ==
    {AbsentFile, MalformedFile} \cup
    {JsonFile(d, [j \in 1..k |-> SeedScenario(j)], pretty) :
        d \in {"neo_tokyo", "seed"}, k \in 0..MaxCatalog, pretty \in BOOLEAN}

\* the catalogs two racing runs start from: none, or a well-formed one that is
\* empty or full
RaceSeedCatalogs ==
    {AbsentFile} \cup
    {JsonFile("neo_tokyo", [j \in 1..k |-> SeedScenario(j)], TRUE) : k \in {0, MaxCatalog}}

\* existsSync
existsSync(file) == file.kind # "absent"

\* JSON.parse(readFileSync(file)): the value, without the layout of the text
CanParse(file) == file.kind = "json"
JSONparse(file) == [defaultScenarioId |-> file.defaultScenarioId,
                    scenarios |-> file.scenarios]

\* JSON.stringify(data, null, 2)
JSONstringify(data) == JsonFile(data.defaultScenarioId, data.scenarios, TRUE)

Plan(nLocations, nAgents) ==
    [id |-> "cozy", name |-> "Cozy Village", locations |-> nLocations, agents |-> nAgents]

NoPlan == Plan(0, 0)

IdleRun ==
    [pc |-> "idle", step |-> 0, plan |-> NoPlan, id |-> NoId, i |-> 0, k |-> 1,
     locationPaths |-> << >>, states |-> << >>, agentConfigs |-> << >>,
     broadcasts |-> << >>, calls |-> << >>, err |-> NULL, returned |-> FALSE]

Update(step, status) == [step |-> step, total |-> TOTAL, status |-> status]

\* broadcast(++step, TOTAL, message, status)
BroadcastNext(r, status) ==
    [r EXCEPT !.step = @ + 1, !.broadcasts = Append(@, Update(r.step + 1, status))]

Call(r, api, asset) == [r EXCEPT !.calls = Append(@, [api |-> api, asset |-> asset])]

\* Mutant: the catch block reports the total instead of the step reached.
Catch_ReportsTotal(r, err) ==
    [r EXCEPT !.broadcasts = Append(@, Update(TOTAL, "error")),
              !.err = err, !.pc = "done", !.returned = TRUE]

\* the catch block: broadcast(step, TOTAL, message, 'error', message); return
Catch(r, err) ==
    [r EXCEPT !.broadcasts = Append(@, Update(r.step, "error")),
              !.err = err, !.pc = "done", !.returned = TRUE]

Result(r, cat) == [run |-> r, catalog |-> cat]

\* what a failed writeFileSync leaves of the file it was writing
SaveOutcomes == {"written", "failed_untouched", "failed_truncated"}

\* Mutant: the new scenario is put first (unshift instead of push).
SaveStep_Unshift(r, cat, outcome) ==
    LET r1 == BroadcastNext(r, "saving")
        newScenario == [id |-> r1.id, name |-> r1.plan.name,
                        background |-> BackgroundPath(r1.id),
                        locations |-> r1.locationPaths, agents |-> r1.agentConfigs]
        scenariosData == IF existsSync(cat) THEN JSONparse(cat)
                         ELSE [defaultScenarioId |-> "neo_tokyo", scenarios |-> << >>]
        pushed == [scenariosData EXCEPT !.scenarios = <<newScenario>> \o @]
    IN IF existsSync(cat) /\ ~CanParse(cat)
       THEN Result(Catch(r1, "JSON.parse"), cat)
       ELSE IF outcome = "written"
       THEN Result([r1 EXCEPT !.broadcasts = Append(@, Update(TOTAL, "complete")),
                              !.pc = "done", !.returned = TRUE],
                   JSONstringify(pushed))
       ELSE Result(Catch(r1, "writeFileSync"),
                   IF outcome = "failed_truncated" THEN MalformedFile ELSE cat)

\* Mutant: the existing catalog is never read, the seed is always used.
SaveStep_NeverReads(r, cat, outcome) ==
    LET r1 == BroadcastNext(r, "saving")
        newScenario == [id |-> r1.id, name |-> r1.plan.name,
                        background |-> BackgroundPath(r1.id),
                        locations |-> r1.locationPaths, agents |-> r1.agentConfigs]
        scenariosData == [defaultScenarioId |-> "neo_tokyo", scenarios |-> << >>]
        pushed == [scenariosData EXCEPT !.scenarios = Append(@, newScenario)]
    IN IF outcome = "written"
       THEN Result([r1 EXCEPT !.broadcasts = Append(@, Update(TOTAL, "complete")),
                              !.pc = "done", !.returned = TRUE],
                   JSONstringify(pushed))
       ELSE Result(Catch(r1, "writeFileSync"), IF outcome = "failed_truncated" THEN MalformedFile ELSE cat)

\* Mutant: complete is broadcast before scenarios.json is written, whatever
\* becomes of the write.
SaveStep_CompleteFirst(r, cat, outcome) ==
    LET r1 == BroadcastNext(r, "saving")
        newScenario == [id |-> r1.id, name |-> r1.plan.name,
                        background |-> BackgroundPath(r1.id),
                        locations |-> r1.locationPaths, agents |-> r1.agentConfigs]
        scenariosData == IF existsSync(cat) THEN JSONparse(cat)
                         ELSE [defaultScenarioId |-> "neo_tokyo", scenarios |-> << >>]
        pushed == [scenariosData EXCEPT !.scenarios = Append(@, newScenario)]
    IN IF existsSync(cat) /\ ~CanParse(cat)
       THEN Result(Catch(r1, "JSON.parse"), cat)
       ELSE Result([r1 EXCEPT !.broadcasts = Append(@, Update(TOTAL, "complete")),
                              !.pc = "done", !.returned = TRUE],
                   IF outcome = "written" THEN JSONstringify(pushed)
                   ELSE IF outcome = "failed_truncated" THEN MalformedFile ELSE cat)

\* Step 44: broadcast, read-modify-write of scenarios.json, broadcast complete
SaveStep(r, cat, outcome) ==
    LET r1 == BroadcastNext(r, "saving")
        newScenario == [id |-> r1.id, name |-> r1.plan.name,
                        background |-> BackgroundPath(r1.id),
                        locations |-> r1.locationPaths, agents |-> r1.agentConfigs]
        scenariosData == IF existsSync(cat) THEN JSONparse(cat)
                         ELSE [defaultScenarioId |-> "neo_tokyo", scenarios |-> << >>]
        pushed == [scenariosData EXCEPT !.scenarios = Append(@, newScenario)]
    IN IF existsSync(cat) /\ ~CanParse(cat)
       THEN Result(Catch(r1, "JSON.parse"), cat)
       ELSE IF outcome = "written"
       THEN Result([r1 EXCEPT !.broadcasts = Append(@, Update(TOTAL, "complete")),
                              !.pc = "done", !.returned = TRUE],
                   JSONstringify(pushed))
       ELSE Result(Catch(r1, "writeFileSync"), IF outcome = "failed_truncated" THEN MalformedFile ELSE cat)

\* top of the agents loop body for agent i, state AGENT_STATES[k]; past the last
\* agent the loop is left for the save step
BeginAgent(r, cat, i, k, outcome) ==
    IF i < r.plan.agents
    THEN Result(Call([BroadcastNext(r, "generating") EXCEPT
                          !.pc = "agent_generate", !.i = i, !.k = k],
                     "generateImage", AgentPath(r.id, i, AGENT_STATES[k])),
                cat)
    ELSE SaveStep(r, cat, outcome)

\* top of the locations loop body for location i; past the last location the
\* agents loop is entered
BeginLocation(r, cat, i, outcome) ==
    IF i < r.plan.locations
    THEN Result(Call([BroadcastNext(r, "generating") EXCEPT
                          !.pc = "location_generate", !.i = i],
                     "generateImage", LocationPath(r.id, i)),
                cat)
    ELSE BeginAgent(r, cat, 0, 1, outcome)

Written(path, content) == [path |-> path, content |-> content]

\* where a call is suspended: the await it has not returned from
Awaiting == {"plan", "background", "location_generate", "location_strip",
             "agent_generate", "agent_strip"}

PlanShapes == {Plan(l, a) : l \in 0..MaxPlanLocations, a \in 0..MaxPlanAgents}
RacePlanShapes == {Plan(l, a) : l \in 1..MaxRacePlanLocations, a \in 1..MaxRacePlanAgents}

\* one call of generateScenario
InitGenerator ==
    /\ planned \in [{1} -> PlanShapes]
    /\ run = [r \in {1} |-> IdleRun]
    /\ catalog \in SeedCatalogs
    /\ files = {}
    /\ nextUuid = 1
    /\ concurrent = FALSE

\* two calls of generateScenario in flight together
InitRace ==
    /\ planned \in [Runs -> RacePlanShapes]
    /\ run = [r \in Runs |-> IdleRun]
    /\ catalog \in RaceSeedCatalogs
    /\ files = {}
    /\ nextUuid = 1
    /\ concurrent = FALSE

\* generateScenario is called: step 1 is broadcast and planScenario awaited
Start(r) ==
    /\ run[r].pc = "idle"
    /\ run' = [run EXCEPT ![r] =
                 Call([BroadcastNext(@, "planning") EXCEPT !.pc = "plan"],
                      "planScenario", BackgroundPath(NoId))]
    /\ concurrent' = (concurrent \/ \E q \in DOMAIN run \ {r} : run[q].pc \in Awaiting)
    /\ UNCHANGED <<planned, catalog, files, nextUuid>>

\* planScenario resolves: the id is made unique, the directories are created
\* (mkdirSync may throw), step 2 is broadcast and the background image awaited
PlanResolves(r) ==
    /\ run[r].pc = "plan"
    /\ \E mkdirOk \in BOOLEAN :
         LET r1 == [run[r] EXCEPT !.plan = planned[r],
                                  !.id = ScenarioId(planned[r].id, nextUuid)]
         IN run' = [run EXCEPT ![r] =
                      IF mkdirOk
                      THEN Call([BroadcastNext(r1, "generating") EXCEPT !.pc = "background"],
                                "generateImage", BackgroundPath(r1.id))
                      ELSE Catch(r1, "mkdirSync")]
    /\ nextUuid' = nextUuid + 1
    /\ UNCHANGED <<planned, catalog, files, concurrent>>

\* the background image resolves: it is written as it came and the locations
\* loop is entered
BackgroundResolves(r) ==
    /\ run[r].pc = "background"
    /\ \E writeOk \in BOOLEAN, outcome \in SaveOutcomes :
         IF writeOk
         THEN LET res == BeginLocation([run[r] EXCEPT !.locationPaths = << >>],
                                       catalog, 0, outcome)
              IN /\ files' = files \cup {Written(BackgroundPath(run[r].id), "raw")}
                 /\ run' = [run EXCEPT ![r] = res.run]
                 /\ catalog' = res.catalog
         ELSE /\ run' = [run EXCEPT ![r] = Catch(@, "writeFileSync")]
              /\ UNCHANGED <<files, catalog>>
    /\ UNCHANGED <<planned, nextUuid, concurrent>>

\* Mutant: a location image is written as it came, without background removal.
LocationImageResolves_NoStrip(r) ==
    /\ run[r].pc = "location_generate"
    /\ LET path == LocationPath(run[r].id, run[r].i)
           r1 == [run[r] EXCEPT !.locationPaths = Append(@, path)]
           res == BeginLocation(r1, catalog, run[r].i + 1, "written")
       IN /\ files' = files \cup {Written(path, "raw")}
          /\ run' = [run EXCEPT ![r] = res.run]
          /\ catalog' = res.catalog
    /\ UNCHANGED <<planned, nextUuid, concurrent>>

\* a location image resolves: stripBackground is awaited on it
LocationImageResolves(r) ==
    /\ run[r].pc = "location_generate"
    /\ run' = [run EXCEPT ![r] =
                 Call([@ EXCEPT !.pc = "location_strip"],
                      "stripBackground", LocationPath(@.id, @.i))]
    /\ UNCHANGED <<planned, catalog, files, nextUuid, concurrent>>

\* stripBackground resolves for a location: the cutout is written, its path
\* pushed, and the loop goes on
LocationStripResolves(r) ==
    /\ run[r].pc = "location_strip"
    /\ \E writeOk \in BOOLEAN, outcome \in SaveOutcomes :
         IF writeOk
         THEN LET path == LocationPath(run[r].id, run[r].i)
                  r1 == [run[r] EXCEPT !.locationPaths = Append(@, path)]
                  res == BeginLocation(r1, catalog, run[r].i + 1, outcome)
              IN /\ files' = files \cup {Written(path, "cutout")}
                 /\ run' = [run EXCEPT ![r] = res.run]
                 /\ catalog' = res.catalog
         ELSE /\ run' = [run EXCEPT ![r] = Catch(@, "writeFileSync")]
              /\ UNCHANGED <<files, catalog>>
    /\ UNCHANGED <<planned, nextUuid, concurrent>>

\* an agent state image resolves: stripBackground is awaited on it
AgentImageResolves(r) ==
    /\ run[r].pc = "agent_generate"
    /\ run' = [run EXCEPT ![r] =
                 Call([@ EXCEPT !.pc = "agent_strip"],
                      "stripBackground", AgentPath(@.id, @.i, AGENT_STATES[@.k]))]
    /\ UNCHANGED <<planned, catalog, files, nextUuid, concurrent>>

\* stripBackground resolves for an agent state: the cutout is written and
\* recorded in states; after the last state the agent's config is pushed
AgentStripResolves(r) ==
    /\ run[r].pc = "agent_strip"
    /\ \E writeOk \in BOOLEAN, outcome \in SaveOutcomes :
         IF writeOk
         THEN LET path == AgentPath(run[r].id, run[r].i, AGENT_STATES[run[r].k])
                  states == Append(run[r].states, path)
                  res == IF run[r].k < Len(AGENT_STATES)
                         THEN BeginAgent([run[r] EXCEPT !.states = states],
                                         catalog, run[r].i, run[r].k + 1, outcome)
                         ELSE BeginAgent([run[r] EXCEPT
                                              !.states = << >>,
                                              !.agentConfigs = Append(@, [states |-> states])],
                                         catalog, run[r].i + 1, 1, outcome)
              IN /\ files' = files \cup {Written(path, "cutout")}
                 /\ run' = [run EXCEPT ![r] = res.run]
                 /\ catalog' = res.catalog
         ELSE /\ run' = [run EXCEPT ![r] = Catch(@, "writeFileSync")]
              /\ UNCHANGED <<files, catalog>>
    /\ UNCHANGED <<planned, nextUuid, concurrent>>

\* the awaited call rejects (service unreachable, HTTP error, no image, bad
\* plan JSON): control passes to the catch block
Rejects(r) ==
    /\ run[r].pc \in Awaiting
    /\ run' = [run EXCEPT ![r] = Catch(@, @.calls[Len(@.calls)].api)]
    /\ UNCHANGED <<planned, catalog, files, nextUuid, concurrent>>

(***************************************************************************)
(* From planned locations to displayed locations: ScenarioPlanner's         *)
(* planLocations, the generator's locations loop, and VillageLocations      *)
(***************************************************************************)
\* the text service answers with at most this many locations
MaxServiceLocations == 10

\* STATION_ROLES[i].type, in index order
STATION_ROLES ==
    <<"center", "bookshelf", "desk", "workbench", "terminal", "scanner", "antenna",
      "portal", "taskboard">>

STATION_TO_LOCATION ==
    [bookshelf |-> "library", desk |-> "cottage", workbench |-> "workshop",
     terminal |-> "terminal", scanner |-> "observatory", antenna |-> "signal_tower",
     portal |-> "town_hall", taskboard |-> "notice_board", center |-> "square"]

\* the keys of VILLAGE_LOCATIONS in the order the object literal lists them
VILLAGE_LOCATIONS ==
    <<"library", "cottage", "workshop", "terminal", "observatory", "signal_tower",
      "town_hall", "notice_board", "square">>

\* Mutant: the locations listed in the order of STATION_ROLES.
getAllLocations_StationOrder ==
    [i \in 1..Len(STATION_ROLES) |-> [id |-> STATION_TO_LOCATION[STATION_ROLES[i]]]]

\* Object.values(VILLAGE_LOCATIONS)
getAllLocations == [i \in 1..Len(VILLAGE_LOCATIONS) |-> [id |-> VILLAGE_LOCATIONS[i]]]

\* coordinates are exact rationals held as integers in units of 1/900 pixel,
\* so that width / 4.5, width / 2 and height * 0.12 have no remainder
GameSizes == {[width |-> 1280, height |-> 720], [width |-> 800, height |-> 600],
              [width |-> 1, height |-> 1]}

Positioned(location, x, y) == [location |-> location, x |-> x, y |-> y]

\* Mutant: three rows of three without the half-cell offset of the middle row.
computeVillageLayout_NoStagger(locations, gameSize) ==
    [j \in 1..Len(locations) |->
        Positioned(locations[j],
                   100 * gameSize.width + ((j - 1) % 3) * 200 * gameSize.width,
                   108 * gameSize.height + ((j - 1) \div 3) * 200 * gameSize.height)]

computeVillageLayout(locations, gameSize) ==
    LET n == Len(locations)
        locationWidth == 200 * gameSize.width
        locationHeight == 200 * gameSize.height
        half == n \div 2
    IN IF n >= 9
       THEN LET locationStartX ==
                    450 * gameSize.width - locationWidth \div 2
                        - ((3 * locationWidth) \div 2 - locationWidth \div 4)
                y0 == 108 * gameSize.height
            IN [j \in 1..n |->
                  LET i == j - 1
                  IN IF i < 3
                     THEN Positioned(locations[j], locationStartX + i * locationWidth, y0)
                     ELSE IF i < 6
                     THEN Positioned(locations[j],
                                     locationStartX + locationWidth \div 2
                                         + (i - 3) * locationWidth,
                                     y0 + locationHeight)
                     ELSE Positioned(locations[j],
                                     locationStartX + (i - 6) * locationWidth,
                                     y0 + 2 * locationHeight)]
       ELSE LET locationStartX ==
                    450 * gameSize.width - locationWidth \div 2
                        - (n * locationWidth) \div 4 - locationWidth \div 4
                y0 == 180 * gameSize.height
                \* odd count: the first row takes indices 0..floor(n/2); even
                \* count: 0..n/2-1
                firstRow == IF n % 2 # 0 THEN half + 1 ELSE half
            IN [j \in 1..n |->
                  LET i == j - 1
                  IN IF i < firstRow
                     THEN Positioned(locations[j], locationStartX + i * locationWidth, y0)
                     ELSE Positioned(locations[j],
                                     locationStartX + locationWidth \div 2
                                         + (i - firstRow) * locationWidth,
                                     y0 + locationHeight)]

\* the "locations" value of the text service's JSON: an array of entries, each
\* named for some station (the order the service intended) and carrying the
\* prompt it wrote at that position, or something that is no array
ServiceArray(n, shift) ==
    [kind |-> "array",
     entries |-> [j \in 1..n |-> [name |-> STATION_ROLES[((j - 1 + shift) % 9) + 1],
                                   prompt |-> j]],
     length |-> n]
ServiceString(n) == [kind |-> "string", entries |-> << >>, length |-> n]
ServiceMissing == [kind |-> "undefined", entries |-> << >>, length |-> 0]

ServiceLocations ==
    {ServiceArray(n, shift) : n \in 0..MaxServiceLocations, shift \in {0, 1}}
        \cup {ServiceString(9), ServiceMissing}

NotPlanned == [status |-> "none", locations |-> << >>, expected |-> 0, got |-> 0]

\* Mutant: an array longer than 9 is cut to 9 instead of refused.
planLocations_AtLeast9(parsed) ==
    IF parsed.kind # "array" \/ parsed.length < 9
    THEN [status |-> "error", locations |-> << >>, expected |-> 9, got |-> parsed.length]
    ELSE [status |-> "ok",
          locations |-> [j \in 1..9 |-> [stationType |-> STATION_ROLES[j],
                                         name |-> parsed.entries[j].name,
                                         prompt |-> parsed.entries[j].prompt]],
          expected |-> 9, got |-> 9]

\* planLocations, after the service has answered
planLocations(parsed) ==
    IF parsed.kind # "array" \/ parsed.length # 9
    THEN [status |-> "error", locations |-> << >>, expected |-> 9, got |-> parsed.length]
    ELSE [status |-> "ok",
          locations |-> [j \in 1..9 |-> [stationType |-> STATION_ROLES[j],
                                         name |-> parsed.entries[j].name,
                                         prompt |-> parsed.entries[j].prompt]],
          expected |-> 9, got |-> 9]

\* the text service answers with at most this many agents
MaxServiceAgents == 8

\* the "agents" value of the text service's JSON
ServiceAgentArray(n) ==
    [kind |-> "array", entries |-> [j \in 1..n |-> [name |-> j, physicalDescription |-> j]],
     length |-> n]

ServiceAgents ==
    {ServiceAgentArray(n) : n \in 0..MaxServiceAgents} \cup {ServiceString(7), ServiceMissing}

NoAgentsPlanned == [status |-> "none", agents |-> << >>, expected |-> 0, got |-> 0]

\* planAgents, after the service has answered
planAgents(parsed) ==
    IF parsed.kind # "array" \/ parsed.length # 7
    THEN [status |-> "error", agents |-> << >>, expected |-> 7, got |-> parsed.length]
    ELSE [status |-> "ok", agents |-> parsed.entries, expected |-> 7, got |-> 7]

\* the image file locations/${i}.png and what it was generated from
LocationImage(i, plan) == [file |-> i, stationType |-> plan.stationType, name |-> plan.name]
NoImage == [file |-> -1, stationType |-> UNDEFINED, name |-> UNDEFINED]

\* the generator's locations loop: locationPaths[i] is the image of plan.locations[i]
locationPaths(locations) == [j \in 1..Len(locations) |-> LocationImage(j - 1, locations[j])]

\* VillageLocations: one VillageLocation per positioned location, in order
VillageLocations(gameSize, activeLocation, showLabels, scenario) ==
    LET positioned == computeVillageLayout(getAllLocations, gameSize)
    IN [j \in 1..Len(positioned) |->
          [key |-> positioned[j].location.id,
           location |-> positioned[j].location,
           isActive |-> (activeLocation = positioned[j].location.id),
           showLabel |-> showLabels,
           x |-> positioned[j].x,
           y |-> positioned[j].y,
           imageUrl |-> IF Len(scenario.locations) = 0 THEN NoImage
                        ELSE scenario.locations[((j - 1) % Len(scenario.locations)) + 1]]]

VARIABLES
    locationPlan,   \* what planLocations returned or threw
    agentPlan,      \* what planAgents returned or threw
    scenario,       \* the generated scenario being displayed
    props,          \* gameSize, activeLocation and showLabels passed to VillageLocations
    rendered        \* the VillageLocation elements on screen

renderVars == <<locationPlan, agentPlan, scenario, props, rendered>>

NoScenario == [locations |-> << >>, generated |-> FALSE]

Props(gameSize, activeLocation, showLabels) ==
    [gameSize |-> gameSize, activeLocation |-> activeLocation, showLabels |-> showLabels]

InitRender ==
    /\ locationPlan = NotPlanned
    /\ agentPlan = NoAgentsPlanned
    /\ scenario = NoScenario
    /\ props = Props([width |-> 1280, height |-> 720], NULL, TRUE)
    /\ rendered = << >>

PlanLocations(parsed) ==
    /\ locationPlan' = planLocations(parsed)
    /\ UNCHANGED <<agentPlan, scenario, props, rendered>>

PlanAgents(parsed) ==
    /\ agentPlan' = planAgents(parsed)
    /\ UNCHANGED <<locationPlan, scenario, props, rendered>>

\* the scenario is generated from the plan and selected; VillageLocations
\* renders it
GenerateLocations ==
    /\ locationPlan.status = "ok"
    /\ scenario' = [locations |-> locationPaths(locationPlan.locations), generated |-> TRUE]
    /\ rendered' = VillageLocations(props.gameSize, props.activeLocation,
                                    props.showLabels, scenario')
    /\ UNCHANGED <<locationPlan, agentPlan, props>>

\* the window is resized, the active location or the label setting changes:
\* VillageLocations renders again
Render(gameSize, activeLocation, showLabels) ==
    /\ scenario.generated
    /\ props' = Props(gameSize, activeLocation, showLabels)
    /\ rendered' = VillageLocations(gameSize, activeLocation, showLabels, scenario)
    /\ UNCHANGED <<locationPlan, agentPlan, scenario>>

(***************************************************************************)
(* server/ScenarioGenerator: generateImage, one call                        *)
(***************************************************************************)
\* images[0] of the service's answer is a text of at most this many characters
MaxImageChars == 3

\* sdUrl as the user typed it: with no, one or two trailing slashes
SdUrls == {[host |-> "http://sd:7860", slashes |-> n] : n \in 0..2}

\* sdUrl.replace(/\/$/, '')
BaseUrl(sdUrl) == [sdUrl EXCEPT !.slashes = IF @ > 0 THEN @ - 1 ELSE 0]

\* a character of the base64 alphabet, and one outside it (a blank)
Base64Chars == {"Q"}
ImageChars == Base64Chars \cup {" "}

ImageTexts == UNION {[1..n -> ImageChars] : n \in 0..MaxImageChars}

\* Buffer.from(text, 'base64'): characters outside the alphabet are skipped,
\* every four characters of the alphabet give three bytes, a rest of two or
\* three gives one or two bytes, a rest of one gives none
BufferFromBase64(text) ==
    [bytes |-> (6 * Cardinality({i \in DOMAIN text : text[i] \in Base64Chars})) \div 8]

NoBuffer == [bytes |-> -1]

\* what fetch and the body give: the request is not answered (with or without
\* a cause), an HTTP status with a text body, or status 200 with a body that
\* is no JSON, the JSON null, an object without images, or one with images
\* the images member of an answer that has none
MISSING == << >>
ImageArrays ==
    {<< >>} \cup {<<t>> : t \in ImageTexts} \cup {<<t, <<"Q", "Q">> >> : t \in ImageTexts}

SdResponse(kind, cause, status, body, hasImages, images) ==
    [kind |-> kind, cause |-> cause, status |-> status, body |-> body,
     hasImages |-> hasImages, images |-> images]

SdResponses ==
    {SdResponse("rejected", cause, 0, "", FALSE, MISSING) : cause \in {UNDEFINED, "ECONNREFUSED"}}
    \cup {SdResponse("http", UNDEFINED, status, body, FALSE, MISSING) :
              status \in {404, 500}, body \in {"", "Not Found"}}
    \cup {SdResponse(kind, UNDEFINED, 200, "", FALSE, MISSING) : kind \in {"not_json", "json_null"}}
    \cup {SdResponse("json", UNDEFINED, 200, "", TRUE, images) : images \in ImageArrays}
    \cup {SdResponse("json", UNDEFINED, 200, "", FALSE, MISSING)}

NoUrl == [host |-> "", slashes |-> 0]

Returned(buffer) ==
    [status |-> "returned", buffer |-> buffer, error |-> "", baseUrl |-> NoUrl,
     cause |-> UNDEFINED, httpStatus |-> 0, body |-> ""]

\* the Error thrown: its message names error, and where the code puts them in
\* the message, the base URL, the cause, the HTTP status and the body
Thrown(error, baseUrl, cause, httpStatus, body) ==
    [status |-> "thrown", buffer |-> NoBuffer, error |-> error, baseUrl |-> baseUrl,
     cause |-> cause, httpStatus |-> httpStatus, body |-> body]

NotCalled == Thrown("not called", NoUrl, UNDEFINED, 0, "")

\* response.ok
ResponseOk(response) == response.status >= 200 /\ response.status <= 299

generateImage(sdUrl, response) ==
    LET baseUrl == BaseUrl(sdUrl)
        \* data.images?.length ?? 0
        imageCount == IF response.hasImages THEN Len(response.images) ELSE 0
    IN IF response.kind = "rejected"
       THEN Thrown("Cannot reach Stable Diffusion", baseUrl, response.cause, 0, "")
       ELSE IF ~ResponseOk(response)
       THEN Thrown("Stable Diffusion error", baseUrl, UNDEFINED, response.status, response.body)
       ELSE IF response.kind = "not_json"
       THEN Thrown("SyntaxError", NoUrl, UNDEFINED, 0, "")
       ELSE IF response.kind = "json_null"
       THEN Thrown("TypeError", NoUrl, UNDEFINED, 0, "")
       ELSE IF imageCount = 0 \/ response.images[1] = << >>
       THEN Thrown("Stable Diffusion returned no images", NoUrl, UNDEFINED, 0, "")
       ELSE Returned(BufferFromBase64(response.images[1]))

VARIABLES
    sdUrl,          \* the sdUrl argument of the last generateImage call
    sdResponse,     \* what the diffusion service answered to it
    imageResult     \* what the call returned or threw

imageVars == <<sdUrl, sdResponse, imageResult>>

NoImageCall ==
    /\ sdUrl = CHOOSE u \in SdUrls : u.slashes = 0
    /\ sdResponse = SdResponse("none", UNDEFINED, 0, "", FALSE, MISSING)
    /\ imageResult = NotCalled

GenerateImage(url, response) ==
    /\ sdUrl' = url
    /\ sdResponse' = response
    /\ imageResult' = generateImage(url, response)

(***************************************************************************)
(* hooks/useScenario: the module's cache and the consumers of the hook       *)
(***************************************************************************)
\* components that call useScenario in one page, and requests one page issues
MaxConsumers == 2
MaxRequests == 2

Consumers == 1..MaxConsumers

ScenarioIds == {"neo_tokyo", "cozy_village_ab12cd34"}

\* what /scenarios.json may hold: the default id and the scenarios, by id
ScenariosData ==
    {[defaultScenarioId |-> "neo_tokyo", scenarios |-> <<"cozy_village_ab12cd34", "neo_tokyo">>],
     [defaultScenarioId |-> "cozy_village_ab12cd34", scenarios |-> <<"neo_tokyo">>]}

\* the null of the cache and of a consumer's data, and of fetchPromise
NoData == [defaultScenarioId |-> NULL, scenarios |-> << >>]
NoPromise == 0

\* stored ?? data?.defaultScenarioId ?? 'neo_tokyo', ignoring what is stored
InitialScenarioId_IgnoresStored(stored, data) ==
    IF data # NoData THEN data.defaultScenarioId ELSE "neo_tokyo"

\* stored ?? data?.defaultScenarioId ?? 'neo_tokyo'
InitialScenarioId(stored, data) ==
    IF stored # NULL THEN stored
    ELSE IF data # NoData THEN data.defaultScenarioId
    ELSE "neo_tokyo"

\* one component's hook state; phase: not rendered yet ("none"), rendered with
\* its effect still to run ("rendered"), effect run ("mounted"), unmounted
\* ("gone"); emptyAtRender records that the cache was empty when it rendered
NotRendered == [phase |-> "none", data |-> NoData, scenarioId |-> "neo_tokyo", emptyAtRender |-> FALSE]

\* a component that is unmounted: its state is gone
Unmounted == [NotRendered EXCEPT !.phase = "gone"]

\* the .then callback of load: setData(loaded) and, with nothing stored,
\* setScenarioIdState(loaded.defaultScenarioId); a state update of a component
\* that is unmounted is dropped
Loaded(consumer, loaded, stored) ==
    IF consumer.phase = "gone" THEN consumer
    ELSE [consumer EXCEPT !.data = loaded,
                          !.scenarioId = IF stored = NULL THEN loaded.defaultScenarioId ELSE @]

\* fetchScenarios().then(callback of c) on the module state m
\* (cache, fetchPromise, requests, consumers; json is the file the server
\* holds): a request is answered with what the file holds when it is issued
load(m, c, stored) ==
    IF m.cache # NoData
    THEN [m EXCEPT !.consumers[c] = Loaded(@, m.cache, stored)]
    ELSE IF m.fetchPromise = NoPromise
    THEN [m EXCEPT !.requests = Append(@, [state |-> "pending", thens |-> {c},
                                           data |-> m.json]),
                   !.fetchPromise = Len(m.requests) + 1]
    ELSE [m EXCEPT !.requests[m.fetchPromise].thens = @ \cup {c}]

\* for (const cb of reloadListeners) cb()
RECURSIVE loadAll(_, _, _)
loadAll(m, listeners, stored) ==
    IF listeners = {} THEN m
    ELSE LET c == CHOOSE x \in listeners : \A y \in listeners : x <= y
         IN loadAll(load(m, c, stored), listeners \ {c}, stored)

\* the promise of request r is fulfilled: cache = data, then the callbacks
RECURSIVE resolveAll(_, _, _, _)
resolveAll(cs, thens, loaded, stored) ==
    IF thens = {} THEN cs
    ELSE LET c == CHOOSE x \in thens : \A y \in thens : x <= y
         IN resolveAll([cs EXCEPT ![c] = Loaded(@, loaded, stored)], thens \ {c}, loaded, stored)

\* the hook's scenario when the list is empty
NullScenario == [id |-> NULL]

\* scenarios.find((s) => s.id === scenarioId) ?? scenarios[0] ?? null
ScenarioOf(consumer) ==
    LET scenarios == IF consumer.data # NoData THEN consumer.data.scenarios ELSE << >>
    IN IF \E i \in DOMAIN scenarios : scenarios[i] = consumer.scenarioId
       THEN [id |-> consumer.scenarioId]
       ELSE IF scenarios # << >> THEN [id |-> scenarios[1]]
       ELSE NullScenario

VARIABLES
    cache,            \* the module's cache
    fetchPromise,     \* the module's in-flight promise: a request's index, or NoPromise
    requests,         \* the requests for /scenarios.json this page has issued
    reloadListeners,  \* the consumers whose load is registered
    consumers,        \* the hook state of each consumer
    localStorage,     \* localStorage['vibecraft-scenario']
    scenariosJson,    \* what /scenarios.json holds
    page              \* what has been called since the page was loaded

hookVars ==
    <<cache, fetchPromise, requests, reloadListeners, consumers, localStorage, scenariosJson, page>>

FreshPage == [reloaded |-> FALSE, setScenario |-> FALSE]

\* the module just loaded, serving the file json
FreshModule(json) ==
    /\ cache = NoData
    /\ fetchPromise = NoPromise
    /\ requests = << >>
    /\ reloadListeners = {}
    /\ consumers = [c \in Consumers |-> NotRendered]
    /\ localStorage = NULL
    /\ scenariosJson = json
    /\ page = FreshPage

InitHook == \E json \in ScenariosData : FreshModule(json)

\* no component uses the hook
NoHook == FreshModule(CHOOSE json \in ScenariosData : json.defaultScenarioId = "neo_tokyo")

Module == [cache |-> cache, fetchPromise |-> fetchPromise, requests |-> requests,
           consumers |-> consumers, json |-> scenariosJson]

SetModule(m) ==
    /\ cache' = m.cache
    /\ fetchPromise' = m.fetchPromise
    /\ requests' = m.requests
    /\ consumers' = m.consumers

\* the component function runs for the first time: the two useState calls
RenderConsumer(c) ==
    /\ consumers[c].phase = "none"
    /\ consumers' = [consumers EXCEPT ![c] =
           [phase |-> "rendered", data |-> cache,
            scenarioId |-> InitialScenarioId(localStorage, cache),
            emptyAtRender |-> cache = NoData]]
    /\ UNCHANGED <<cache, fetchPromise, requests, reloadListeners, localStorage, scenariosJson, page>>

\* the effect of the mounted component: if (!cache) load(); register load
RunEffect(c) ==
    /\ consumers[c].phase = "rendered"
    /\ cache = NoData => fetchPromise # NoPromise \/ Len(requests) < MaxRequests
    /\ LET m == [Module EXCEPT !.consumers[c].phase = "mounted"]
       IN SetModule(IF cache = NoData THEN load(m, c, localStorage) ELSE m)
    /\ reloadListeners' = reloadListeners \cup {c}
    /\ UNCHANGED <<localStorage, scenariosJson, page>>

\* the effect's cleanup
Unmount(c) ==
    /\ consumers[c].phase = "mounted"
    /\ consumers' = [consumers EXCEPT ![c] = Unmounted]
    /\ reloadListeners' = reloadListeners \ {c}
    /\ UNCHANGED <<cache, fetchPromise, requests, localStorage, scenariosJson, page>>

\* request r is answered with the file: cache = data, then every callback
FetchFulfils(r) ==
    /\ r \in DOMAIN requests
    /\ requests[r].state = "pending"
    /\ cache' = requests[r].data
    /\ requests' = [requests EXCEPT ![r] = [@ EXCEPT !.state = "fulfilled", !.thens = {}]]
    /\ consumers' = resolveAll(consumers, requests[r].thens, requests[r].data, localStorage)
    /\ UNCHANGED <<fetchPromise, reloadListeners, localStorage, scenariosJson, page>>

\* request r fails, or its body is no JSON: the promise is rejected, and no
\* callback of the module or of a consumer runs, now or later
FetchRejects(r) ==
    /\ r \in DOMAIN requests
    /\ requests[r].state = "pending"
    /\ requests' = [requests EXCEPT ![r] = [@ EXCEPT !.state = "rejected", !.thens = {}]]
    /\ UNCHANGED <<cache, fetchPromise, consumers, reloadListeners, localStorage, scenariosJson, page>>

reloadScenarios ==
    /\ reloadListeners # {} => Len(requests) < MaxRequests
    /\ SetModule(loadAll([Module EXCEPT !.cache = NoData, !.fetchPromise = NoPromise],
                         reloadListeners, localStorage))
    /\ page' = [page EXCEPT !.reloaded = TRUE]
    /\ UNCHANGED <<reloadListeners, localStorage, scenariosJson>>

setScenario(c, id) ==
    /\ consumers[c].phase = "mounted"
    /\ localStorage' = id
    /\ consumers' = [consumers EXCEPT ![c].scenarioId = id]
    /\ page' = [page EXCEPT !.setScenario = TRUE]
    /\ UNCHANGED <<cache, fetchPromise, requests, reloadListeners, scenariosJson>>

\* the page is loaded afresh: the module and the components start over, the
\* local storage and the file are kept
PageLoad ==
    /\ cache' = NoData
    /\ fetchPromise' = NoPromise
    /\ requests' = << >>
    /\ reloadListeners' = {}
    /\ consumers' = [c \in Consumers |-> NotRendered]
    /\ page' = FreshPage
    /\ UNCHANGED <<localStorage, scenariosJson>>

\* the generator rewrites the file the server holds
CatalogChanges ==
    /\ \E json \in ScenariosData : scenariosJson' = json /\ json # scenariosJson
    /\ UNCHANGED <<cache, fetchPromise, requests, reloadListeners, consumers, localStorage, page>>

(***************************************************************************)
(* components/PromptForm: the prompt text, its submission and the responses   *)
(***************************************************************************)
\* characters of a prompt text, and POSTs the model lets be outstanding
MaxPromptChars == 2
MaxOutstanding == 2

PromptChars == {" ", "h"}
PromptTexts == UNION {[1..n -> PromptChars] : n \in 0..MaxPromptChars}

\* String.prototype.trim
RECURSIVE TrimStart(_)
TrimStart(text) ==
    IF text # << >> /\ Head(text) = " " THEN TrimStart(Tail(text)) ELSE text

RECURSIVE TrimEnd(_)
TrimEnd(text) ==
    IF text # << >> /\ text[Len(text)] = " " THEN TrimEnd(SubSeq(text, 1, Len(text) - 1)) ELSE text

Trim(text) == TrimEnd(TrimStart(text))

\* the managed sessions the server may list: id and status
SessionLists ==
    {<< >>} \cup {<<[id |-> "s1", status |-> status]>> : status \in {"idle", "working"}}

\* what find returns when no session matches, and a null selectedSession
NoSession == [id |-> NULL, status |-> NULL]

\* sessions.find(s => s.id === id)
Find(list, id) ==
    IF \E j \in DOMAIN list : list[j].id = id
    THEN list[CHOOSE j \in DOMAIN list : list[j].id = id /\ \A k \in 1..(j - 1) : list[k].id # id]
    ELSE NoSession

\* selectedSession ? `/api/sessions/${selectedSession.id}/prompt` : '/api/prompt'
Endpoint(selectedSession) ==
    IF selectedSession # NoSession
    THEN <<"/api/sessions", selectedSession.id, "prompt">> ELSE <<"/api/prompt">>

\* the outcomes of the POST: response.ok, a response that is not ok, fetch rejected
PostOutcomes == {"ok", "not_ok", "network_error"}

VARIABLES
    prompt,           \* useState: the text of the textarea
    isSubmitting,     \* useState
    selectedSessionId,  \* props: the id of the selected session, or NULL
    sessions,         \* props: the managed sessions
    shown,            \* the state the last render gave the handlers and the page
    posts,            \* the prompt POSTs sent and not answered yet
    attempt           \* the last call of handleSubmit: what it found and did

formVars == <<prompt, isSubmitting, selectedSessionId, sessions, shown, posts, attempt>>

\* selectedSessionId ? sessions.find(s => s.id === selectedSessionId) : null
SelectedSession == IF selectedSessionId # NULL THEN Find(sessions, selectedSessionId) ELSE NoSession

\* selectedSession?.status === 'working': the Stop button is rendered
isWorking == SelectedSession # NoSession /\ SelectedSession.status = "working"

NoAttempt == [empty |-> FALSE, outstanding |-> 0, sent |-> FALSE, called |-> FALSE]

Attempt(sent) ==
    [empty |-> Trim(shown.prompt) = << >>, outstanding |-> Len(posts), sent |-> sent, called |-> TRUE]

Shown(p, submitting) == [prompt |-> p, isSubmitting |-> submitting]

InitForm ==
    /\ prompt = << >>
    /\ isSubmitting = FALSE
    /\ selectedSessionId = NULL
    /\ sessions = << >>
    /\ shown = Shown(<< >>, FALSE)
    /\ posts = << >>
    /\ attempt = NoAttempt

\* handleInput, on a textarea that is not disabled; the update is made in an
\* event handler, so the component has rendered again before the next event
handleInput(value) ==
    /\ ~shown.isSubmitting
    /\ prompt' = value
    /\ shown' = Shown(value, isSubmitting)
    /\ UNCHANGED <<isSubmitting, selectedSessionId, sessions, posts, attempt>>

\* handleSubmit up to its await, without the test of isSubmitting
handleSubmit_NoInFlightGuard ==
    IF Trim(shown.prompt) = << >>
    THEN attempt' = Attempt(FALSE) /\ UNCHANGED <<prompt, isSubmitting, selectedSessionId, sessions, shown, posts>>
    ELSE /\ Len(posts) < MaxOutstanding
         /\ isSubmitting' = TRUE
         /\ shown' = Shown(prompt, TRUE)
         /\ posts' = Append(posts, [endpoint |-> Endpoint(SelectedSession),
                                    prompt |-> Trim(shown.prompt), send |-> TRUE])
         /\ attempt' = Attempt(TRUE)
         /\ UNCHANGED <<prompt, selectedSessionId, sessions>>

\* handleSubmit up to its await: prompt and isSubmitting are those of the last
\* render
handleSubmit ==
    IF Trim(shown.prompt) = << >> \/ shown.isSubmitting
    THEN attempt' = Attempt(FALSE) /\ UNCHANGED <<prompt, isSubmitting, selectedSessionId, sessions, shown, posts>>
    ELSE /\ Len(posts) < MaxOutstanding
         /\ isSubmitting' = TRUE
         /\ shown' = Shown(prompt, TRUE)
         /\ posts' = Append(posts, [endpoint |-> Endpoint(SelectedSession),
                                    prompt |-> Trim(shown.prompt), send |-> TRUE])
         /\ attempt' = Attempt(TRUE)
         /\ UNCHANGED <<prompt, selectedSessionId, sessions>>

Keys == {"Enter", "a"}

\* handleKeyDown: Enter without Shift submits
handleKeyDown(key, shiftKey) ==
    IF key = "Enter" /\ ~shiftKey THEN handleSubmit ELSE UNCHANGED formVars

\* the form's submit event (a click on the submit button)
SubmitClick == handleSubmit

\* handleSubmit after its await, for the oldest POST: the state is updated
\* outside an event handler, and the component renders again later
PostAnswered(outcome) ==
    /\ posts # << >>
    /\ posts' = Tail(posts)
    /\ prompt' = IF outcome = "ok" THEN << >> ELSE prompt
    /\ isSubmitting' = FALSE
    /\ UNCHANGED <<selectedSessionId, sessions, shown, attempt>>

\* the component renders with its current state
RenderForm ==
    /\ shown # Shown(prompt, isSubmitting)
    /\ shown' = Shown(prompt, isSubmitting)
    /\ UNCHANGED <<prompt, isSubmitting, selectedSessionId, sessions, posts, attempt>>

\* the parent selects another session, or none
SelectSession(id) ==
    /\ selectedSessionId # id
    /\ selectedSessionId' = id
    /\ UNCHANGED <<prompt, isSubmitting, sessions, shown, posts, attempt>>

\* the parent passes the session list the server has sent
SessionsUpdate(list) ==
    /\ sessions # list
    /\ sessions' = list
    /\ UNCHANGED <<prompt, isSubmitting, selectedSessionId, shown, posts, attempt>>

(***************************************************************************)
(* components/ActivityFeed: the scroll position of the feed                  *)
(***************************************************************************)
\* events the feed is given
MaxFeedEvents == 3

\* the feed element's clientHeight, the heights of a feed item, and the steps
\* in which the user scrolls, in px
ClientHeight == 100
ItemHeights == {30, 60}
ScrollStep == 10

\* assigning v to scrollTop: the browser keeps it within the content
ClampScrollTop(v, height) == Max(0, Min(v, height - ClientHeight))

\* scrollHeight - scrollTop - clientHeight <= 50
isAtBottom_AtMost50(top, height) == height - top - ClientHeight <= 50

\* scrollHeight - scrollTop - clientHeight < 50
isAtBottom(top, height) == height - top - ClientHeight < 50

VARIABLES
    feedEvents,        \* filteredEvents.length
    scrollHeight,      \* feedRef.current.scrollHeight
    scrollTop,         \* feedRef.current.scrollTop
    autoScroll,        \* useState
    showScrollButton,  \* useState
    feedEffect,        \* the effect of the last commit, until it has run
    scrollEvent,       \* a scroll event is waiting to be dispatched
    lastScroll,        \* the last scroll event handled, or button press
    lastEffect         \* the last effect that ran

feedVars ==
    <<feedEvents, scrollHeight, scrollTop, autoScroll, showScrollButton, feedEffect, scrollEvent,
      lastScroll, lastEffect>>

NoScrollYet == [kind |-> "none", distance |-> 0]
NoEffect == [cause |-> "none", autoScroll |-> FALSE, at |-> NoScrollYet, button |-> FALSE, moved |-> FALSE]

\* the effect a commit leaves to run: the autoScroll of that render
Effect(cause, auto, button, at) ==
    [cause |-> cause, autoScroll |-> auto, at |-> at, button |-> button, moved |-> FALSE]

\* mounted, the first effect run, no events: the placeholder fits the element
InitFeed ==
    /\ feedEvents = 0
    /\ scrollHeight = ClientHeight
    /\ scrollTop = 0
    /\ autoScroll = TRUE
    /\ showScrollButton = FALSE
    /\ feedEffect = NoEffect
    /\ scrollEvent = FALSE
    /\ lastScroll = NoScrollYet
    /\ lastEffect = NoEffect

\* the effect body: if (autoScroll && feedRef.current) scrollTop = scrollHeight
EffectScrollTop(effect, top, height) ==
    IF effect.autoScroll THEN ClampScrollTop(height, height) ELSE top

\* events are appended and the component renders: the content grows and the
\* effect of this commit is left to run (an earlier effect has run by then)
AppendEvents(height) ==
    /\ feedEvents < MaxFeedEvents
    /\ feedEffect = NoEffect
    /\ feedEvents' = feedEvents + 1
    /\ scrollHeight' = IF feedEvents = 0 THEN Max(ClientHeight, height) ELSE scrollHeight + height
    /\ feedEffect' = Effect("append", autoScroll, showScrollButton, lastScroll)
    /\ UNCHANGED <<scrollTop, autoScroll, showScrollButton, scrollEvent, lastScroll, lastEffect>>

\* the pending effect runs
RunFeedEffect ==
    /\ feedEffect # NoEffect
    /\ scrollTop' = EffectScrollTop(feedEffect, scrollTop, scrollHeight)
    /\ scrollEvent' = (scrollEvent \/ scrollTop' # scrollTop)
    /\ lastEffect' = [feedEffect EXCEPT !.moved = scrollTop' # scrollTop]
    /\ feedEffect' = NoEffect
    /\ UNCHANGED <<feedEvents, scrollHeight, autoScroll, showScrollButton, lastScroll>>

\* the user scrolls the feed
UserScroll(top) ==
    /\ top = ClampScrollTop(top, scrollHeight)
    /\ top # scrollTop
    /\ scrollTop' = top
    /\ scrollEvent' = TRUE
    /\ UNCHANGED <<feedEvents, scrollHeight, autoScroll, showScrollButton, feedEffect, lastScroll, lastEffect>>

\* the state is set in a handler and the component renders again: a pending
\* effect runs first, with the autoScroll of its own render, and the new commit
\* leaves an effect when autoScroll has changed
Rerender(top, auto, button, at) ==
    LET flushed == IF feedEffect # NoEffect
                   THEN EffectScrollTop(feedEffect, top, scrollHeight) ELSE top
    IN /\ scrollTop' = flushed
       /\ autoScroll' = auto
       /\ showScrollButton' = button
       /\ lastEffect' = IF feedEffect # NoEffect
                        THEN [feedEffect EXCEPT !.moved = flushed # top] ELSE lastEffect
       /\ feedEffect' = IF auto # autoScroll THEN Effect("autoScroll", auto, button, at)
                        ELSE NoEffect
       /\ lastScroll' = at

\* handleScroll, for the scroll event that is waiting
handleScroll ==
    /\ scrollEvent
    /\ LET atBottom == isAtBottom(scrollTop, scrollHeight)
           at == [kind |-> "scroll", distance |-> scrollHeight - scrollTop - ClientHeight]
       IN /\ Rerender(scrollTop, atBottom, ~atBottom, at)
          /\ scrollEvent' = (scrollTop' # scrollTop)
    /\ UNCHANGED <<feedEvents, scrollHeight>>

\* scrollToBottom, the click on the jump-to-latest button
scrollToBottom ==
    /\ showScrollButton
    /\ LET top == ClampScrollTop(scrollHeight, scrollHeight)
       IN /\ Rerender(top, TRUE, FALSE, [kind |-> "pressed", distance |-> 0])
          /\ scrollEvent' = (scrollEvent \/ scrollTop' # scrollTop)
    /\ UNCHANGED <<feedEvents, scrollHeight>>

(***************************************************************************)
(* components/Config/RegeneratePanel: thumbnails and regeneration updates     *)
(***************************************************************************)
\* locations and agents of a generated scenario in the panel
MaxRegenLocations == 1
MaxRegenAgents == 3

\* the time at which an update arrives: one value stands for every time
Now == 1

\* texts are sequences of pieces; "::" is a piece of its own
IndexNames == <<"0", "1", "2", "3", "4", "5", "6", "7", "8", "9">>
IndexName(i) == IndexNames[i + 1]

\* scenario ids: the planner's id is free text, so an id may hold "::"
RegenScenarioIds == {<<"x_1f">>, <<"x_1f", "::", "background">>}

\* 'background', `location-${i}`, `agent-${i}-${state}`
BackgroundKey == <<"background">>
LocationKey(i) == <<"location-", IndexName(i)>>
AgentKey(i, agentState) == <<"agent-", IndexName(i), "-", agentState>>

RegenAgentStates == {AGENT_STATES[n] : n \in DOMAIN AGENT_STATES}

AssetKeys ==
    {BackgroundKey} \cup {LocationKey(i) : i \in 0..(MaxRegenLocations - 1)}
        \cup {AgentKey(i, st) : i \in 0..(MaxRegenAgents - 1), st \in RegenAgentStates}

\* the undefined of a Record<string, number>: falsy, as is 0
NoTimestamp == 0

\* a Record<string, T>: obj[key], obj[key] = value, delete obj[key]
\* (absent is what stands for undefined among the values of obj)
Lookup(obj, key, absent) == IF key \in DOMAIN obj THEN obj[key] ELSE absent
Put(obj, key, value) == [k \in DOMAIN obj \cup {key} |-> IF k = key THEN value ELSE obj[k]]
Delete(obj, key) == [k \in DOMAIN obj \ {key} |-> obj[k]]
EmptyRecord == [k \in {} |-> UNDEFINED]

\* the panel's key, made from the asset key alone
StatusKey_IgnoresScenario(sid, key) == key

\* `${sid}::${key}` of status and bust
StatusKey(sid, key) == sid \o <<"::">> \o key

\* regenKey: `${update.scenarioId}::${update.assetKey}`
regenKey(update) == update.scenarioId \o <<"::">> \o update.assetKey

\* assetSrc: bust ? `${path}?t=${bust}` : path
assetSrc(path, bust) ==
    IF bust # NoTimestamp THEN [path |-> path, t |-> bust] ELSE [path |-> path, t |-> NoTimestamp]

\* the image path of an asset of a scenario
AssetPath(sid, key) == <<sid, key>>

\* what RegenThumb is given for one asset of scenario sid
RegenThumb(sid, key, status, timestamps) ==
    [assetKey |-> key,
     src |-> assetSrc(AssetPath(sid, key), Lookup(timestamps, StatusKey(sid, key), NoTimestamp)),
     status |-> Lookup(status, StatusKey(sid, key), UNDEFINED)]

\* the thumbnails RegeneratePanel shows for scenario sid: the background, the
\* locations, and the five states of the expanded agent
RegeneratePanel(sid, status, timestamps, expanded) ==
    {RegenThumb(sid, key, status, timestamps) :
        key \in {BackgroundKey} \cup {LocationKey(i) : i \in 0..(MaxRegenLocations - 1)}
                    \cup {AgentKey(i, st) : i \in {expanded} \cap 0..(MaxRegenAgents - 1),
                                            st \in RegenAgentStates}}

\* the assets the updates are about: the background and a pose of agent 2
UpdatedAssets == {BackgroundKey, AgentKey(2, "thinking")}

\* the asset_regeneration frames: for one scenario its background and the pose,
\* for the other scenario the same pose
AssetRegenerationUpdates ==
    {update \in [scenarioId : RegenScenarioIds, assetKey : UpdatedAssets,
                 status : {"started", "complete", "error"}] :
        update.scenarioId = <<"x_1f">> \/ update.assetKey = AgentKey(2, "thinking")}

VARIABLES
    regenStatus,      \* Record<string, 'loading' | 'done' | 'error'>
    regenTimestamps,  \* Record<string, number>
    panelScenario,    \* the id of the scenario the panel shows
    expandedAgent     \* useState: the index of the expanded agent, or NoAgent

regenVars == <<regenStatus, regenTimestamps, panelScenario, expandedAgent>>

NoAgent == -1

InitRegen ==
    /\ regenStatus = EmptyRecord
    /\ regenTimestamps = EmptyRecord
    /\ panelScenario = <<"x_1f">>
    /\ expandedAgent = NoAgent

\* the browser receives an asset_regeneration frame: the entry of regenKey is
\* set to loading, done (with the time as the cache-busting timestamp) or error
OnAssetRegeneration(update, now) ==
    LET key == regenKey(update)
    IN /\ regenStatus' = Put(regenStatus, key,
                             CASE update.status = "started" -> "loading"
                               [] update.status = "complete" -> "done"
                               [] update.status = "error" -> "error")
       /\ regenTimestamps' = IF update.status = "complete"
                             THEN Put(regenTimestamps, key, now) ELSE regenTimestamps
       /\ UNCHANGED <<panelScenario, expandedAgent>>

\* three seconds after done the entry reverts
DoneReverts(key) ==
    /\ Lookup(regenStatus, key, UNDEFINED) = "done"
    /\ regenStatus' = Delete(regenStatus, key)
    /\ UNCHANGED <<regenTimestamps, panelScenario, expandedAgent>>

\* setExpandedAgent(isExpanded ? null : i)
ToggleAgent(i) ==
    /\ expandedAgent' = IF expandedAgent = i THEN NoAgent ELSE i
    /\ UNCHANGED <<regenStatus, regenTimestamps, panelScenario>>

\* the scenario picker selects another generated scenario
ShowScenario(sid) ==
    /\ panelScenario # sid
    /\ panelScenario' = sid
    /\ expandedAgent' = NoAgent
    /\ UNCHANGED <<regenStatus, regenTimestamps>>

(***************************************************************************)
(* components/Character/ClaudeCharacter: the sprites of the sub-agents       *)
(***************************************************************************)
\* agents of a scenario, and sub-agents alive at once
MaxScenarioAgents == 3
MaxSubagents == 4

\* scenario.agents of a scenario with n agents: each agent by its index
ScenarioAgents(n) == [j \in 1..n |-> j - 1]

\* the sprite of the main character: scenario.agents[0]
MainImage(agents) == agents[1]

\* scenario.agents[(index + 1) % scenario.agents.length], index counted from 0
SubagentImage(agents, index) == agents[((index + 1) % Len(agents)) + 1]

\* subagents.map((subagent, index) => <SubagentCharacter imageUrl=... />)
SubagentCharacters(subagents, agents) ==
    [j \in 1..Len(subagents) |->
        [key |-> subagents[j], index |-> j - 1, imageUrl |-> SubagentImage(agents, j - 1)]]

VARIABLES
    characterProps,  \* the scenario and the subagents passed to ClaudeCharacter
    subagentSprites  \* the SubagentCharacter elements on screen

characterVars == <<characterProps, subagentSprites>>

InitCharacter ==
    /\ characterProps = [agents |-> ScenarioAgents(1), subagents |-> << >>]
    /\ subagentSprites = << >>

\* ClaudeCharacter renders with the props it is given
RenderCharacter(agents, subagents) ==
    /\ characterProps' = [agents |-> agents, subagents |-> subagents]
    /\ subagentSprites' = SubagentCharacters(subagents, agents)

\* a sub-agent is spawned: the village state's list grows by one at its end
SubagentSpawned(id) ==
    /\ Len(characterProps.subagents) < MaxSubagents
    /\ \A j \in DOMAIN characterProps.subagents : characterProps.subagents[j] # id
    /\ RenderCharacter(characterProps.agents, Append(characterProps.subagents, id))

\* a sub-agent is removed from the village state's list
SubagentRemoved(id) ==
    /\ \E j \in DOMAIN characterProps.subagents : characterProps.subagents[j] = id
    /\ RenderCharacter(characterProps.agents,
                       SelectSeq(characterProps.subagents, LAMBDA x : x # id))

\* another scenario, with n agents, is chosen
ScenarioChosen(n) ==
    /\ n # Len(characterProps.agents)
    /\ RenderCharacter(ScenarioAgents(n), characterProps.subagents)

(***************************************************************************)
(* App: the EventClient wiring and the events list                          *)
(***************************************************************************)
\* events the relay server has buffered, and the length up to which the
\* App's list is followed
MaxBuffered == 2
MaxEvents == 4

\* client.requestHistory(100)
HistoryCount == 100

\* the relay's reply to a history request: the last count events of the
\* buffered events, which are numbered 1..buffered by their id
History(count, buffered) ==
    LET n == Min(count, buffered)
    IN [j \in 1..n |-> buffered - n + j]

VARIABLES
    app,     \* useState of App: connected, events (by id), soundEnabled
    client,  \* the EventClient of the last effect run: its socket's state and
             \* whether a history request is unanswered
    relay    \* the number of events the relay server has buffered

appVars == <<app, client, relay>>

\* new EventClient(...); the handlers are registered; client.connect()
NewClient == [state |-> "connecting", history |-> FALSE]

\* the App after its first render and effect
InitApp ==
    /\ app = [connected |-> FALSE, events |-> << >>, soundEnabled |-> TRUE]
    /\ client = NewClient
    /\ relay = 0

\* onConnection(true): setConnected(true); client.requestHistory(100)
ClientConnected ==
    /\ client.state = "connecting"
    /\ client' = [state |-> "open", history |-> TRUE]
    /\ app' = [app EXCEPT !.connected = TRUE]
    /\ UNCHANGED relay

\* the socket closes or fails: onConnection(false), and the client connects again
ConnectionLost ==
    /\ client.state = "open"
    /\ client' = NewClient
    /\ app' = [app EXCEPT !.connected = FALSE]
    /\ UNCHANGED relay

\* onHistory: setEvents(prev => [...prev, ...historyEvents])
HistoryReply ==
    /\ client.state = "open"
    /\ client.history
    /\ Len(app.events) + Min(HistoryCount, relay) <= MaxEvents
    /\ app' = [app EXCEPT !.events = @ \o History(HistoryCount, relay)]
    /\ client' = [client EXCEPT !.history = FALSE]
    /\ UNCHANGED relay

\* the relay receives an event, buffers it and broadcasts it; onEvent of a
\* connected client: setEvents(prev => [...prev, event])
LiveEvent ==
    /\ relay < MaxBuffered
    /\ client.state = "open" => Len(app.events) < MaxEvents
    /\ relay' = relay + 1
    /\ app' = IF client.state = "open"
              THEN [app EXCEPT !.events = Append(@, relay + 1)] ELSE app
    /\ UNCHANGED client

\* the sound button: setSoundEnabled(!soundEnabled); the effect depends on
\* soundEnabled, so its cleanup unsubscribes and disconnects the client and the
\* effect runs again with a new client
ToggleSound ==
    /\ app' = [app EXCEPT !.soundEnabled = ~@]
    /\ client' = NewClient
    /\ UNCHANGED relay

vars == <<villageVars, genVars, renderVars, imageVars, hookVars, formVars, feedVars, regenVars, characterVars, appVars>>

\* no generateScenario call is made
NoGenerator ==
    /\ planned = << >>
    /\ run = << >>
    /\ catalog = AbsentFile
    /\ files = {}
    /\ nextUuid = 1
    /\ concurrent = FALSE

\* the village at mount, nothing generated or displayed
Init == InitVillage /\ NoGenerator /\ InitRender /\ NoImageCall /\ NoHook /\ InitForm /\ InitFeed /\ InitRegen /\ InitCharacter /\ InitApp

\* what the village's events and dispatches leave alone
OnlyVillage == UNCHANGED <<genVars, renderVars, imageVars, hookVars, formVars, feedVars, regenVars, characterVars, appVars>>

\* what a step of generateScenario leaves alone
OnlyGenerator == UNCHANGED <<villageVars, renderVars, imageVars, hookVars, formVars, feedVars, regenVars, characterVars, appVars>>

\* what planning, generating and rendering the locations leave alone
OnlyRender == UNCHANGED <<villageVars, genVars, imageVars, hookVars, formVars, feedVars, regenVars, characterVars, appVars>>

\* what a call of generateImage leaves alone
OnlyImage == UNCHANGED <<villageVars, genVars, renderVars, hookVars, formVars, feedVars, regenVars, characterVars, appVars>>

\* what the useScenario hook leaves alone
OnlyHook == UNCHANGED <<villageVars, genVars, renderVars, imageVars, formVars, feedVars, regenVars, characterVars, appVars>>

\* what PromptForm leaves alone
OnlyForm == UNCHANGED <<villageVars, genVars, renderVars, imageVars, hookVars, feedVars, regenVars, characterVars, appVars>>

\* what ActivityFeed leaves alone
OnlyFeed == UNCHANGED <<villageVars, genVars, renderVars, imageVars, hookVars, formVars, regenVars, characterVars, appVars>>

\* what RegeneratePanel leaves alone
OnlyRegen == UNCHANGED <<villageVars, genVars, renderVars, imageVars, hookVars, formVars, feedVars, characterVars, appVars>>

\* what ClaudeCharacter's rendering leaves alone
OnlyCharacter == UNCHANGED <<villageVars, genVars, renderVars, imageVars, hookVars, formVars, feedVars, regenVars, appVars>>

\* what the App's event wiring leaves alone
OnlyApp == UNCHANGED <<villageVars, genVars, renderVars, imageVars, hookVars, formVars, feedVars, regenVars, characterVars>>

NextVillage ==
    \/ \E event \in PreToolUseEvents : pre_tool_use(event) /\ OnlyVillage
    \/ \E event \in PostToolUseEvents : post_tool_use(event) /\ OnlyVillage
    \/ stop /\ OnlyVillage
    \/ user_prompt_submit /\ OnlyVillage
    \/ FinishMoving /\ OnlyVillage
    \/ Reset /\ OnlyVillage

NextReducer ==
    \/ DispatchMoveToLocation /\ OnlyVillage
    \/ DispatchSetCharacterState /\ OnlyVillage
    \/ DispatchFinishMoving /\ OnlyVillage
    \/ DispatchSetSession /\ OnlyVillage
    \/ DispatchSpawnSubagent /\ OnlyVillage
    \/ DispatchRemoveSubagent /\ OnlyVillage
    \/ DispatchSetActiveLocation /\ OnlyVillage
    \/ DispatchToggleSound /\ OnlyVillage
    \/ DispatchToggleLabels /\ OnlyVillage
    \/ DispatchSetZoom /\ OnlyVillage
    \/ DispatchReset /\ OnlyVillage

NextGenerator ==
    \/ \E r \in DOMAIN run : Start(r) /\ OnlyGenerator
    \/ \E r \in DOMAIN run : PlanResolves(r) /\ OnlyGenerator
    \/ \E r \in DOMAIN run : BackgroundResolves(r) /\ OnlyGenerator
    \/ \E r \in DOMAIN run : LocationImageResolves(r) /\ OnlyGenerator
    \/ \E r \in DOMAIN run : LocationStripResolves(r) /\ OnlyGenerator
    \/ \E r \in DOMAIN run : AgentImageResolves(r) /\ OnlyGenerator
    \/ \E r \in DOMAIN run : AgentStripResolves(r) /\ OnlyGenerator
    \/ \E r \in DOMAIN run : Rejects(r) /\ OnlyGenerator

\* state.activeLocation as passed to VillageLocations: none, the first and the
\* last location
ActiveLocations == {NULL, "library", "square"}

NextRender ==
    \/ \E parsed \in ServiceLocations : PlanLocations(parsed) /\ OnlyRender
    \/ \E parsed \in ServiceAgents : PlanAgents(parsed) /\ OnlyRender
    \/ GenerateLocations /\ OnlyRender
    \/ \E gameSize \in GameSizes, activeLocation \in ActiveLocations,
          showLabels \in BOOLEAN :
            Render(gameSize, activeLocation, showLabels) /\ OnlyRender

\* the village driven by the event stream
Spec == Init /\ [][NextVillage]_vars

\* the reducer driven by arbitrary dispatches
SpecReducer == Init /\ [][NextReducer]_vars

\* one generateScenario call about to be made
InitGen == InitVillage /\ InitGenerator /\ InitRender /\ NoImageCall /\ NoHook /\ InitForm /\ InitFeed /\ InitRegen /\ InitCharacter /\ InitApp

\* one scenario generation
SpecGen == InitGen /\ [][NextGenerator]_vars

\* two generateScenario calls about to be made
InitTwoRuns == InitVillage /\ InitRace /\ InitRender /\ NoImageCall /\ NoHook /\ InitForm /\ InitFeed /\ InitRegen /\ InitCharacter /\ InitApp

\* two scenario generations in flight together
SpecRace == InitTwoRuns /\ [][NextGenerator]_vars

\* a scenario planned, generated and displayed
SpecRender == Init /\ [][NextRender]_vars

\* a pre_tool_use event for any tool name: those of the table, unknown ones,
\* and names of members every object inherits
AnyToolEvents ==
    [type : {"pre_tool_use"}, tool : Tools \cup ObjectPrototypeKeys, sessionId : {"s1"},
     toolUseId : {1}, toolInput : [description : {UNDEFINED}]]

NextTools ==
    \/ \E event \in AnyToolEvents : pre_tool_use(event) /\ OnlyVillage
    \/ FinishMoving /\ OnlyVillage

\* the character sent from tool to tool
SpecTools == Init /\ [][NextTools]_vars

NextImage == \E url \in SdUrls, response \in SdResponses : GenerateImage(url, response) /\ OnlyImage

\* generateImage called again and again, whatever the service answers
SpecImage == Init /\ [][NextImage]_vars

NextHook ==
    \/ \E c \in Consumers : RenderConsumer(c) /\ OnlyHook
    \/ \E c \in Consumers : RunEffect(c) /\ OnlyHook
    \/ \E c \in Consumers : Unmount(c) /\ OnlyHook
    \/ \E r \in 1..MaxRequests : FetchFulfils(r) /\ OnlyHook
    \/ \E r \in 1..MaxRequests : FetchRejects(r) /\ OnlyHook
    \/ reloadScenarios /\ OnlyHook
    \/ \E c \in Consumers, id \in ScenarioIds : setScenario(c, id) /\ OnlyHook
    \/ PageLoad /\ OnlyHook

\* components using useScenario in a page that may be loaded again
InitPage ==
    InitVillage /\ NoGenerator /\ InitRender /\ NoImageCall /\ InitHook /\ InitForm /\ InitFeed /\ InitRegen /\ InitCharacter /\ InitApp

SpecHook == InitPage /\ [][NextHook]_vars

NextReload ==
    \/ \E c \in Consumers : RenderConsumer(c) /\ OnlyHook
    \/ \E c \in Consumers : RunEffect(c) /\ OnlyHook
    \/ \E r \in 1..MaxRequests : FetchFulfils(r) /\ OnlyHook
    \/ \E r \in 1..MaxRequests : FetchRejects(r) /\ OnlyHook
    \/ reloadScenarios /\ OnlyHook
    \/ CatalogChanges /\ OnlyHook

\* components using useScenario while scenarios are generated and the catalog
\* is reloaded
SpecReload == InitPage /\ [][NextReload]_vars

NextForm ==
    \/ \E value \in PromptTexts : handleInput(value) /\ OnlyForm
    \/ \E key \in Keys, shiftKey \in BOOLEAN : handleKeyDown(key, shiftKey) /\ OnlyForm
    \/ SubmitClick /\ OnlyForm
    \/ \E outcome \in PostOutcomes : PostAnswered(outcome) /\ OnlyForm
    \/ RenderForm /\ OnlyForm
    \/ \E id \in {NULL, "s1"} : SelectSession(id) /\ OnlyForm
    \/ \E list \in SessionLists : SessionsUpdate(list) /\ OnlyForm

\* typing, Enter, submit clicks and answers in any order
SpecForm == Init /\ [][NextForm]_vars

ScrollPositions == {n * ScrollStep : n \in 0..((MaxFeedEvents * 60) \div ScrollStep)}

NextFeed ==
    \/ \E height \in ItemHeights : AppendEvents(height) /\ OnlyFeed
    \/ RunFeedEffect /\ OnlyFeed
    \/ \E top \in ScrollPositions : UserScroll(top) /\ OnlyFeed
    \/ handleScroll /\ OnlyFeed
    \/ scrollToBottom /\ OnlyFeed

\* events arriving while the user scrolls
SpecFeed == Init /\ [][NextFeed]_vars

NextRegen ==
    \/ \E update \in AssetRegenerationUpdates : OnAssetRegeneration(update, Now) /\ OnlyRegen
    \/ \E key \in DOMAIN regenStatus : DoneReverts(key) /\ OnlyRegen
    \/ \E i \in 0..(MaxRegenAgents - 1) : ToggleAgent(i) /\ OnlyRegen
    \/ \E sid \in RegenScenarioIds : ShowScenario(sid) /\ OnlyRegen

\* regeneration updates arriving while the panel is used
SpecRegen == Init /\ [][NextRegen]_vars

NextCharacter ==
    \/ \E id \in 1..MaxSubagents : SubagentSpawned(id) /\ OnlyCharacter
    \/ \E id \in 1..MaxSubagents : SubagentRemoved(id) /\ OnlyCharacter
    \/ \E n \in 1..MaxScenarioAgents : ScenarioChosen(n) /\ OnlyCharacter

\* ClaudeCharacter while sub-agents come and go and scenarios are switched
SpecCharacter == Init /\ [][NextCharacter]_vars

NextApp ==
    \/ ClientConnected /\ OnlyApp
    \/ ConnectionLost /\ OnlyApp
    \/ HistoryReply /\ OnlyApp
    \/ LiveEvent /\ OnlyApp
    \/ ToggleSound /\ OnlyApp

\* the App while the relay connects, replays, broadcasts and the sound button
\* is clicked
SpecApp == Init /\ [][NextApp]_vars

(***************************************************************************)
(* Claims about the village state machine                                  *)
(***************************************************************************)

\* C1 (Spec): once a post_tool_use for Task with toolUseId t has been handled no
\* sub-agent has toolUseId t, and a sub-agent with toolUseId t is present only
\* while a Task pre_tool_use for t has been handled with no Task post_tool_use
\* for t and no RESET after it.
C1_TaskPairing ==
    /\ (last.type = "post_tool_use" /\ last.tool = "Task")
            => last.toolUseId \notin SubagentIds(state)
    /\ SubagentIds(state) \subseteq openTasks

\* a Task post_tool_use removed its sub-agent while an older Task is still open
C1_Witness ==
    /\ last.type = "post_tool_use" /\ last.tool = "Task" /\ last.dup
    /\ Len(state.subagents) = 1
    /\ state.subagents[1].toolUseId < last.toolUseId

NoDuplicateToolUseIds ==
    \A i, j \in DOMAIN state.subagents :
        i # j => state.subagents[i].toolUseId # state.subagents[j].toolUseId

\* C2 (SpecReducer): whatever reducer actions are dispatched, no two sub-agents
\* share a toolUseId, and a SPAWN_SUBAGENT whose toolUseId is already present
\* leaves the whole state as it was.
C2_SpawnIdempotent ==
    /\ []NoDuplicateToolUseIds
    /\ [][(last'.type = "SPAWN_SUBAGENT" /\ last'.dup) => state' = state]_villageVars

\* a second spawn of the same toolUseId has been dispatched and one entry is there
C2_Witness ==
    /\ last.type = "SPAWN_SUBAGENT" /\ last.dup
    /\ Len(state.subagents) = 1

\* C3 (SpecReducer): MOVE_TO_LOCATION to the character's location returns the
\* state it was given; to another location it sets previousLocation to the old
\* location, location and activeLocation to the target, isMoving to true, and
\* nothing else.
C3_MoveFrame ==
    [][last'.type = "MOVE_TO_LOCATION" =>
        IF last'.location = state.character.location
        THEN state' = state
        ELSE state' = [character |->
                           [location |-> last'.location,
                            previousLocation |-> state.character.location,
                            state |-> state.character.state,
                            isMoving |-> TRUE,
                            currentTool |-> state.character.currentTool,
                            sessionId |-> state.character.sessionId],
                       subagents |-> state.subagents,
                       activeLocation |-> last'.location,
                       soundEnabled |-> state.soundEnabled,
                       showLabels |-> state.showLabels,
                       zoom |-> state.zoom]]_villageVars

\* a move to the current location was dispatched after an earlier walk had ended
\* and the highlight had been moved elsewhere
C3_Witness ==
    /\ last.type = "MOVE_TO_LOCATION" /\ last.same
    /\ state.character.previousLocation # NULL
    /\ ~state.character.isMoving
    /\ state.activeLocation # state.character.location

\* the pre_tool_use events that carry the tool and toolUseId of the last step
LastPreToolUseEvents ==
    {event \in [type : {"pre_tool_use"}, tool : {last'.tool}, sessionId : SessionIds,
                toolUseId : {last'.toolUseId},
                toolInput : [description : Descriptions]] :
        event \in PreToolUseEvents}

CharacterAfterPreToolUse(event) ==
    /\ state'.character.location = getLocationForTool(event.tool)
    /\ state'.character.state = "working"
    /\ state'.character.currentTool = event.tool
    /\ state'.character.sessionId = event.sessionId

InputDescription(event) ==
    IF event.toolInput.description \in {UNDEFINED, ""}
    THEN "Subagent" ELSE event.toolInput.description

\* C4 as stated (Spec): after any pre_tool_use the character is at the tool's
\* location, working, with the tool and the session of the event, and for Task
\* a sub-agent with the event's toolUseId is at town_hall with the description
\* of the event's input ("Subagent" when missing or empty).
C4_Original ==
    [][last'.type = "pre_tool_use" =>
        \A event \in LastPreToolUseEvents : pre_tool_use(event) =>
            /\ CharacterAfterPreToolUse(event)
            /\ event.tool = "Task" =>
                  \E i \in DOMAIN state'.subagents :
                      /\ state'.subagents[i].toolUseId = event.toolUseId
                      /\ state'.subagents[i].location = "town_hall"
                      /\ state'.subagents[i].description = InputDescription(event)]_villageVars

\* C4 as amended (Spec): the same, except that the description is the event's
\* only when no sub-agent had the event's toolUseId before; a sub-agent that
\* had it is kept as it was.
C4_PreToolUse ==
    [][last'.type = "pre_tool_use" =>
        \A event \in LastPreToolUseEvents : pre_tool_use(event) =>
            /\ CharacterAfterPreToolUse(event)
            /\ event.tool = "Task" =>
                  \E i \in DOMAIN state'.subagents :
                      /\ state'.subagents[i].toolUseId = event.toolUseId
                      /\ state'.subagents[i].location = "town_hall"
                      /\ IF event.toolUseId \in SubagentIds(state)
                         THEN state'.subagents = state.subagents
                         ELSE state'.subagents[i].description = InputDescription(event)]_villageVars

\* a Task pre_tool_use arrived for a toolUseId whose sub-agent was already there,
\* while the character was elsewhere in another session
C4_Witness ==
    /\ last.type = "pre_tool_use" /\ last.tool = "Task" /\ last.dup /\ ~last.same
    /\ Len(state.subagents) = 2
    /\ state.character.sessionId = "s2"

\* C5 as stated (Spec): after a stop the character is idle at the square, and
\* isMoving is true exactly when the character was not at the square before.
C5_Original ==
    [][stop =>
        /\ state'.character.location = "square"
        /\ state'.character.state = "idle"
        /\ state'.character.isMoving = (state.character.location # "square")]_villageVars

\* C5 as amended (Spec): after a stop the character is idle at the square;
\* isMoving is true when the character was not at the square before, and keeps
\* its value (true while a walk to the square is still under way) when it was.
C5_Stop ==
    [][stop =>
        /\ state'.character.location = "square"
        /\ state'.character.state = "idle"
        /\ state'.character.isMoving =
              IF state.character.location # "square" THEN TRUE
              ELSE state.character.isMoving]_villageVars

\* a stop was handled while the character was still walking to the square
C5_Witness ==
    /\ last.type = "stop" /\ last.same
    /\ state.character.isMoving
    /\ state.character.state = "idle"

(***************************************************************************)
(* Scenario generation: progress, failure, catalog                         *)
(***************************************************************************)
Completed(r) ==
    /\ r.returned
    /\ r.err = NULL
    /\ r.broadcasts[Len(r.broadcasts)].status = "complete"

StepsStrictlyIncrease(b) == \A j \in 1..(Len(b) - 1) : b[j].step < b[j + 1].step

\* C6 (as the specification states it): a run of generateScenario in which
\* every planning, image and file step succeeded has broadcast updates whose
\* step strictly increases from 1 to 49, each with total 49, the last one
\* with status complete and step = total = 49.
C6_FullRun ==
    \A r \in DOMAIN run :
        Completed(run[r]) =>
            LET b == run[r].broadcasts
            IN /\ b[1].step = 1
               /\ StepsStrictlyIncrease(b)
               /\ \A j \in 1..Len(b) : b[j].total = 49
               /\ b[Len(b)].status = "complete"
               /\ b[Len(b)].step = 49

ErrorUpdates(b) == {j \in 1..Len(b) : b[j].status = "error"}

\* what the catch block leaves behind when a step of run r has thrown
FailedAsStated(r) ==
    LET b == r.broadcasts
    IN /\ r.pc = "done"
       /\ r.returned
       /\ ErrorUpdates(b) = {Len(b)}
       /\ Len(b) >= 2
       /\ b[Len(b)].step = r.step
       /\ b[Len(b)].step = b[Len(b) - 1].step
       /\ b[Len(b) - 1].status # "error"

\* the files run r has written
FilesOf(r) == {f \in files : f.path.id = r.id}

\* C7: when a planning, image, background-removal or file step of a run fails,
\* the run returns normally with exactly one error update, which is its last
\* broadcast and carries the step of the last progress update before it; and
\* from then on the run starts nothing: no call, no broadcast, no file.
C7_FailureAborts ==
    /\ [](\A r \in DOMAIN run :
            /\ (run[r].err # NULL \/ ErrorUpdates(run[r].broadcasts) # {})
                   => FailedAsStated(run[r])
            /\ run[r].returned => (Completed(run[r]) \/ run[r].err # NULL))
    /\ [][\A r \in DOMAIN run :
            run[r].err # NULL =>
                /\ run'[r] = run[r]
                /\ \A f \in files' \ files : f.path.id # run[r].id]_vars

\* C7 witness: a location image failed after earlier steps had succeeded, and
\* the error update carries that location's step, short of the total
C7_Witness ==
    \E r \in DOMAIN run :
        /\ run[r].err = "generateImage"
        /\ run[r].calls[Len(run[r].calls)].asset.dir = "locations"
        /\ run[r].calls[Len(run[r].calls)].asset.index >= 1
        /\ run[r].broadcasts[Len(run[r].broadcasts)].step = 2 + run[r].i + 1
        /\ run[r].step < TOTAL
        /\ FilesOf(run[r]) # {}

\* run r broadcasts complete in this step
Completes(r) == ~Completed(run[r]) /\ Completed(run'[r])

IsNewScenario(entry, r) ==
    /\ entry.id = r.id
    /\ entry.name = r.plan.name
    /\ entry.background = BackgroundPath(r.id)
    /\ entry.locations = r.locationPaths
    /\ entry.agents = r.agentConfigs

\* C8: a run that completes against a scenarios.json holding k scenarios leaves
\* k+1: the k entries as they were and in their order, the new scenario last,
\* defaultScenarioId as it was; with no file it leaves defaultScenarioId
\* neo_tokyo and the new scenario as the only entry.
C8_CatalogAppend ==
    [][\A r \in DOMAIN run :
         Completes(r) =>
             /\ catalog'.kind = "json"
             /\ IsNewScenario(catalog'.scenarios[Len(catalog'.scenarios)], run'[r])
             /\ catalog.kind = "json" =>
                    /\ Len(catalog'.scenarios) = Len(catalog.scenarios) + 1
                    /\ SubSeq(catalog'.scenarios, 1, Len(catalog.scenarios))
                           = catalog.scenarios
                    /\ catalog'.defaultScenarioId = catalog.defaultScenarioId
             /\ catalog.kind = "absent" =>
                    /\ Len(catalog'.scenarios) = 1
                    /\ catalog'.defaultScenarioId = "neo_tokyo"]_vars

\* C8 witness: a run has completed and the catalog holds earlier entries, under
\* a default other than neo_tokyo, followed by the new scenario
C8_Witness ==
    \E r \in DOMAIN run :
        /\ Completed(run[r])
        /\ catalog.kind = "json"
        /\ Len(catalog.scenarios) >= 2
        /\ catalog.defaultScenarioId = "seed"
        /\ catalog.scenarios[1] = SeedScenario(1)
        /\ catalog.scenarios[Len(catalog.scenarios)].id = run[r].id

InCatalog(r) ==
    /\ catalog.kind = "json"
    /\ \E j \in 1..Len(catalog.scenarios) : catalog.scenarios[j].id = r.id

BothComplete == DOMAIN run = Runs /\ \A r \in Runs : Completed(run[r])

C10_PlannedOrderDisplayed ==
    (scenario.generated /\ rendered # << >>) =>
        \A i \in 0..8 :
            \E j \in DOMAIN rendered :
                /\ rendered[j].imageUrl = scenario.locations[i + 1]
                /\ scenario.locations[i + 1].stationType = STATION_ROLES[i + 1]
                /\ rendered[j].location.id = STATION_TO_LOCATION[STATION_ROLES[i + 1]]

(***************************************************************************)
(* Claims about the tool table and the zoom                                *)
(***************************************************************************)
\* what the specification's table gives for a tool name
StatedLocation(tool) ==
    CASE tool = "Read" -> "library"
      [] tool \in {"Write", "NotebookEdit"} -> "cottage"
      [] tool = "Edit" -> "workshop"
      [] tool = "Bash" -> "terminal"
      [] tool \in {"Grep", "Glob"} -> "observatory"
      [] tool \in {"WebFetch", "WebSearch"} -> "signal_tower"
      [] tool = "Task" -> "town_hall"
      [] tool = "TodoWrite" -> "notice_board"
      [] OTHER -> "square"

\* C11 (as the specification states it): the location a pre_tool_use sends the
\* character to, getLocationForTool(tool), is the table's entry for the twelve
\* tools of the table and square for every other tool name, and is always one
\* of the nine VillageLocationType values.
C11_ToolTable ==
    last.type = "pre_tool_use" =>
        /\ last.location = getLocationForTool(last.tool)
        /\ getLocationForTool(last.tool) = StatedLocation(last.tool)
        /\ getLocationForTool(last.tool) \in VillageLocationType
        /\ state.character.location \in VillageLocationType

\* C12 (as the specification states it): in every state reachable by reducer
\* actions the zoom lies in [0.5, 2] (5..20 in tenths).
C12_ZoomInRange == 5 <= state.zoom /\ state.zoom <= 20

(***************************************************************************)
(* Claims about the planner                                                *)
(***************************************************************************)
IsArrayOf(parsed, n) == parsed.kind = "array" /\ parsed.length = n

LocationsAsStated(parsed, result) ==
    IF IsArrayOf(parsed, 9)
    THEN /\ result.status = "ok"
         /\ Len(result.locations) = 9
         /\ \A i \in 1..9 :
                /\ result.locations[i].stationType = STATION_ROLES[i]
                /\ result.locations[i].name = parsed.entries[i].name
                /\ result.locations[i].prompt = parsed.entries[i].prompt
    ELSE /\ result.status = "error"
         /\ result.expected = 9
         /\ parsed.kind = "array" => result.got = parsed.length

AgentsAsStated(parsed, result) ==
    IF IsArrayOf(parsed, 7)
    THEN result.status = "ok" /\ result.agents = parsed.entries
    ELSE /\ result.status = "error"
         /\ result.expected = 7
         /\ parsed.kind = "array" => result.got = parsed.length

\* C13: planLocations throws an error naming 9 and the count it got unless the
\* service's locations value is an array of exactly 9 entries, planAgents
\* likewise for 7; with 9 entries the i-th planned location has station type
\* STATION_ROLES[i] and the name and prompt of the i-th returned entry.
C13_PlanCounts ==
    [][/\ \A parsed \in ServiceLocations :
             PlanLocations(parsed) => LocationsAsStated(parsed, locationPlan')
       /\ \A parsed \in ServiceAgents :
             PlanAgents(parsed) => AgentsAsStated(parsed, agentPlan')]_vars

\* C13 witness: planLocations accepted 9 entries the service had written in
\* another order, and planAgents refused 6 agents
C13_Witness ==
    /\ locationPlan.status = "ok"
    /\ locationPlan.locations[1].stationType = "center"
    /\ locationPlan.locations[1].name = "bookshelf"
    /\ agentPlan.status = "error"
    /\ agentPlan.expected = 7
    /\ agentPlan.got = 6

(***************************************************************************)
(* Claims about generateImage                                              *)
(***************************************************************************)
NoOutput(response) ==
    /\ response.kind = "json"
    /\ \/ ~response.hasImages
       \/ response.images = << >>
       \/ response.images[1] = << >>

\* C14 (as the specification states it): generateImage never returns an empty
\* or absent image as a success; a missing or empty images array or an empty
\* first element gives the no-output error, a non-success status an error with
\* status and body, an unsent request a connectivity error naming the base
\* URL, and only otherwise the decoded first image is returned.
C14_NoEmptyImage ==
    sdResponse.kind # "none" =>
        /\ imageResult.status = "returned" => imageResult.buffer.bytes > 0
        /\ sdResponse.kind = "rejected" =>
               /\ imageResult.status = "thrown"
               /\ imageResult.error = "Cannot reach Stable Diffusion"
               /\ imageResult.baseUrl = BaseUrl(sdUrl)
        /\ (sdResponse.kind # "rejected" /\ ~ResponseOk(sdResponse)) =>
               /\ imageResult.status = "thrown"
               /\ imageResult.httpStatus = sdResponse.status
               /\ imageResult.body = sdResponse.body
        /\ (ResponseOk(sdResponse) /\ NoOutput(sdResponse)) =>
               /\ imageResult.status = "thrown"
               /\ imageResult.error = "Stable Diffusion returned no images"
        /\ imageResult.status = "returned" =>
               imageResult.buffer = BufferFromBase64(sdResponse.images[1])

(***************************************************************************)
(* Claims about useScenario                                                *)
(***************************************************************************)
\* C15 (as the specification states it): with no reloadScenarios call, the
\* consumers that mount while the cache is empty cause exactly one request for
\* /scenarios.json, every one of them receives its response once it has
\* arrived, and a consumer that mounts after the cache is filled issues none.
C15_OneFetchForAll ==
    ~page.reloaded =>
        /\ Len(requests) <= 1
        /\ (\E c \in Consumers : consumers[c].phase = "mounted" /\ consumers[c].emptyAtRender)
               => Len(requests) = 1
        /\ \A c \in Consumers :
               (/\ consumers[c].phase = "mounted"
                /\ consumers[c].emptyAtRender
                /\ requests # << >>
                /\ requests[1].state = "fulfilled")
               => consumers[c].data = scenariosJson
        /\ \A c \in Consumers, r \in DOMAIN requests :
               (consumers[c].phase \in {"rendered", "mounted"} /\ ~consumers[c].emptyAtRender)
               => c \notin requests[r].thens

\* C16: after setScenario(id) for an id of the catalog, a consumer mounted in a
\* page loaded afresh (same local storage, same catalog, no call since the
\* load) has, once its catalog data has loaded, scenarioId = id and a scenario
\* whose id is id.
C16_StoredScenarioRestored ==
    \A c \in Consumers :
        (/\ ~page.setScenario
         /\ localStorage # NULL
         /\ \E i \in DOMAIN scenariosJson.scenarios : scenariosJson.scenarios[i] = localStorage
         /\ consumers[c].phase \in {"rendered", "mounted"}
         /\ consumers[c].data # NoData)
        => /\ consumers[c].scenarioId = localStorage
           /\ ScenarioOf(consumers[c]) = [id |-> localStorage]

\* a page loaded afresh after setScenario chose a scenario that is neither the
\* default nor the first of the catalog, with a consumer whose data has loaded
C16_Witness ==
    /\ ~page.setScenario
    /\ localStorage = "neo_tokyo"
    /\ scenariosJson.defaultScenarioId = "cozy_village_ab12cd34"
    /\ \E c \in Consumers :
           /\ consumers[c].phase = "mounted"
           /\ consumers[c].emptyAtRender
           /\ consumers[c].data = scenariosJson
           /\ ScenarioOf(consumers[c]) = [id |-> "neo_tokyo"]

(***************************************************************************)
(* Claims about PromptForm                                                 *)
(***************************************************************************)
SubmitAttempt == SubmitClick \/ \E shiftKey \in BOOLEAN : handleKeyDown("Enter", shiftKey)

\* C17: at most one prompt POST is outstanding; an Enter or a submit click
\* while the prompt is empty after trim, or while a POST is outstanding, sends
\* nothing; an ok answer clears the prompt text; an answer that is not ok, or a
\* network error, keeps the text and re-enables submission.
C17_OnePostOutstanding ==
    /\ [](Len(posts) <= 1)
    /\ [][/\ (SubmitAttempt /\ (Trim(prompt) = << >> \/ posts # << >>)) => posts' = posts
          /\ PostAnswered("ok") => prompt' = << >> /\ ~isSubmitting'
          /\ (PostAnswered("not_ok") \/ PostAnswered("network_error"))
                 => prompt' = prompt /\ ~isSubmitting' /\ posts' = << >>]_vars

\* a prompt was sent, trimmed, and while it is outstanding a submission was
\* attempted and sent nothing
C17_Witness ==
    /\ Len(posts) = 1
    /\ posts[1].prompt = <<"h">>
    /\ prompt = <<" ", "h">>
    /\ attempt = [empty |-> FALSE, outstanding |-> 1, sent |-> FALSE, called |-> TRUE]

(***************************************************************************)
(* Claims about ActivityFeed                                               *)
(***************************************************************************)
\* the last scroll event found the feed less than 50px from the bottom, or
\* there was none yet, or the button was pressed since
Pinned(at) == at.kind # "scroll" \/ at.distance < 50

\* C18: events appended when the last scroll position was less than 50px from
\* the bottom (or before any scroll) set scrollTop to scrollHeight, with no
\* jump-to-latest button; appended when it was 50px or more from the bottom
\* they leave scrollTop unchanged, and the button is shown until it is pressed
\* or a scroll comes back within 50px.
C18_PinnedToBottom ==
    /\ [](showScrollButton <=> ~Pinned(lastScroll))
    /\ [][(RunFeedEffect /\ feedEffect.cause = "append") =>
              IF Pinned(feedEffect.at)
              THEN scrollTop' = ClampScrollTop(scrollHeight, scrollHeight) /\ ~feedEffect.button
              ELSE scrollTop' = scrollTop /\ feedEffect.button]_vars

\* both cases have happened: the feed was moved to the bottom by an append,
\* and after a scroll to exactly 50px from the bottom the next append left it
C18_Witness ==
    /\ lastEffect.cause = "append"
    /\ lastEffect.at = [kind |-> "scroll", distance |-> 50]
    /\ ~lastEffect.moved
    /\ showScrollButton
    /\ scrollHeight - scrollTop - ClientHeight >= 80

C18_WitnessPinned ==
    /\ lastEffect.cause = "append"
    /\ lastEffect.at = [kind |-> "scroll", distance |-> 40]
    /\ lastEffect.moved
    /\ ~showScrollButton
    /\ scrollHeight - scrollTop - ClientHeight = 0

(***************************************************************************)
(* Claims about computeVillageLayout                                       *)
(***************************************************************************)
\* the row of the j-th entry (1-based), rows of three
RowOf(j) == (j - 1) \div 3

\* C19: for the 9 locations and every window size, the layout displayed has 9
\* entries, the i-th for the i-th location, in three rows of 3 (1-3, 4-6, 7-9):
\* one y per row, 0.12 height, + height/4.5, + 2 height/4.5, strictly
\* increasing; x advances by width/4.5 within a row; the middle row starts
\* width/9 to the right of the first and third (coordinates in 1/900 px).
C19_ThreeRowsOfThree ==
    scenario.generated =>
        LET w == props.gameSize.width
            h == props.gameSize.height
        IN /\ Len(rendered) = 9
           /\ \A j \in 1..9 : rendered[j].location = getAllLocations[j]
           /\ \A j, k \in 1..9 : RowOf(j) = RowOf(k) => rendered[j].y = rendered[k].y
           /\ \A j, k \in 1..9 : RowOf(j) < RowOf(k) => rendered[j].y < rendered[k].y
           /\ rendered[1].y * 100 = 12 * 900 * h
           /\ (rendered[4].y - rendered[1].y) * 45 = 900 * 10 * h
           /\ (rendered[7].y - rendered[1].y) * 45 = 2 * 900 * 10 * h
           /\ \A j \in 1..8 : RowOf(j) = RowOf(j + 1)
                  => (rendered[j + 1].x - rendered[j].x) * 45 = 900 * 10 * w
           /\ (rendered[4].x - rendered[1].x) * 9 = 900 * w
           /\ rendered[7].x = rendered[1].x

\* the nine locations laid out in a 1280 x 720 window; the fifth is at
\* x = 5120/9 px, y = 246.4 px
C19_Witness ==
    /\ scenario.generated
    /\ props.gameSize = [width |-> 1280, height |-> 720]
    /\ Len(rendered) = 9
    /\ rendered[5].x = 512000
    /\ rendered[5].y = 221760

(***************************************************************************)
(* Claims about RegeneratePanel                                            *)
(***************************************************************************)
\* the thumbnail of asset key of scenario sid, as the panel would show it
ThumbOf(sid, key) == RegenThumb(sid, key, regenStatus, regenTimestamps)

\* C20: the status and the cache-busting timestamp of a thumbnail are those of
\* the entry keyed <scenarioId>::<assetKey> of its own scenario and asset, and
\* an update for one (scenarioId, assetKey) changes the thumbnail of no other
\* asset of that scenario or of any other scenario.
C20_OnlyOwnThumbnail ==
    /\ [](\A thumb \in RegeneratePanel(panelScenario, regenStatus, regenTimestamps, expandedAgent) :
            /\ thumb.status = Lookup(regenStatus, panelScenario \o <<"::">> \o thumb.assetKey, UNDEFINED)
            /\ thumb.src.t = Lookup(regenTimestamps, panelScenario \o <<"::">> \o thumb.assetKey, NoTimestamp))
    /\ [][\A update \in AssetRegenerationUpdates :
             OnAssetRegeneration(update, Now) =>
                 \A sid \in RegenScenarioIds, key \in AssetKeys :
                     (sid # update.scenarioId \/ key # update.assetKey)
                         => ThumbOf(sid, key)' = ThumbOf(sid, key)]_vars

\* agent-2-thinking of one scenario was regenerated and is shown as done, with
\* its timestamp, next to its idle pose, which has no status, while the same
\* asset of the other scenario is still loading
C20_Witness ==
    /\ panelScenario = <<"x_1f">>
    /\ expandedAgent = 2
    /\ ThumbOf(<<"x_1f">>, AgentKey(2, "thinking")).status = "done"
    /\ ThumbOf(<<"x_1f">>, AgentKey(2, "thinking")).src.t = 1
    /\ ThumbOf(<<"x_1f">>, AgentKey(2, "idle")).status = UNDEFINED
    /\ ThumbOf(<<"x_1f", "::", "background">>, AgentKey(2, "thinking")).status = "loading"
    /\ ThumbOf(<<"x_1f", "::", "background">>, AgentKey(2, "thinking")).src.t = NoTimestamp

(***************************************************************************)
(* Claims about the order of a run's external calls                        *)
(***************************************************************************)
\* the j-th external call of a run with this id and plan, were all to succeed:
\* planning, the background, each location (image, then background removal),
\* each agent's five states in the order of AGENT_STATES (image, then removal)
ExpectedCall(id, plan, j) ==
    LET l == j - 3
        m == j - 3 - 2 * plan.locations
        api(n) == IF n % 2 = 0 THEN "generateImage" ELSE "stripBackground"
    IN IF j = 1 THEN [api |-> "planScenario", asset |-> BackgroundPath(NoId)]
       ELSE IF j = 2 THEN [api |-> "generateImage", asset |-> BackgroundPath(id)]
       ELSE IF j <= 2 + 2 * plan.locations
       THEN [api |-> api(l), asset |-> LocationPath(id, l \div 2)]
       ELSE [api |-> api(m),
             asset |-> AgentPath(id, m \div 10, AGENT_STATES[(m % 10) \div 2 + 1])]

\* where the background removal of a location or agent image stands among the
\* calls
StripIndex(plan, path) ==
    IF path.dir = "locations"
    THEN 4 + 2 * path.index
    ELSE 4 + 2 * plan.locations + 10 * path.index
           + 2 * ((CHOOSE k \in DOMAIN AGENT_STATES : AGENT_STATES[k] = path.name) - 1)

\* the j-th call of r has returned: the plan was taken over, the background was
\* written as it came, an image was handed to background removal, a cutout
\* was written
HasReturned(r, j) ==
    LET call == r.calls[j]
    IN CASE call.api = "planScenario" -> r.id # NoId
         [] call.api = "generateImage" /\ call.asset.dir = "scenario" ->
                Written(call.asset, "raw") \in files
         [] call.api = "generateImage" /\ call.asset.dir # "scenario" ->
                /\ j < Len(r.calls)
                /\ r.calls[j + 1] = [api |-> "stripBackground", asset |-> call.asset]
         [] call.api = "stripBackground" -> Written(call.asset, "cutout") \in files

\* C21: the external calls of a run are made one at a time, each only after the
\* one before it has returned, in the order planning, background, locations
\* 0..n-1, then each agent's states idle, walking, working, thinking, finished;
\* every location and agent file holds the output of background removal, asked
\* for on that image before the file was written, and the background file holds
\* the image as generated, with no background removal ever asked for it.
C21_OneCallAtATime ==
    \A r \in DOMAIN run :
        LET calls == run[r].calls
        IN /\ \A j \in 1..Len(calls) :
                  /\ calls[j] = ExpectedCall(run[r].id, planned[r], j)
                  /\ j < Len(calls) => HasReturned(run[r], j)
           /\ run[r].pc \in Awaiting => Len(calls) >= 1 /\ ~HasReturned(run[r], Len(calls))
           /\ \A f \in FilesOf(run[r]) :
                  IF f.path.dir = "scenario"
                  THEN f.content = "raw"
                  ELSE /\ f.content = "cutout"
                       /\ StripIndex(planned[r], f.path) <= Len(calls)
                       /\ calls[StripIndex(planned[r], f.path)]
                              = [api |-> "stripBackground", asset |-> f.path]
           /\ \A j \in 1..Len(calls) :
                  calls[j].api = "stripBackground" => calls[j].asset.dir # "scenario"

\* the last agent's finished pose is awaiting background removal after all the
\* locations and the other poses were generated, cut out and written
C21_Witness ==
    \E r \in DOMAIN run :
        /\ run[r].pc = "agent_strip"
        /\ planned[r].locations >= 2
        /\ planned[r].agents >= 2
        /\ Len(run[r].calls) = 2 + 2 * planned[r].locations + 10 * planned[r].agents
        /\ run[r].calls[Len(run[r].calls)].asset
               = AgentPath(run[r].id, planned[r].agents - 1, "finished")

(***************************************************************************)
(* Claims about what a client finds when complete is broadcast             *)
(***************************************************************************)
\* the image files a catalog entry refers to
PathsOf(entry) ==
    {entry.background}
        \cup {entry.locations[i] : i \in DOMAIN entry.locations}
        \cup UNION {{entry.agents[i].states[k] : k \in DOMAIN entry.agents[i].states} :
                        i \in DOMAIN entry.agents}

WrittenPaths(fs) == {f.path : f \in fs}

\* C22: when a run broadcasts complete, scenarios.json already holds the new
\* scenario, with the background, every planned location and the five states
\* of every planned agent, and every file it refers to has been written; and
\* scenarios.json never holds a generated scenario one of whose files is
\* missing.
C22_CompleteAfterSave ==
    /\ [](catalog.kind = "json" =>
            \A n \in DOMAIN catalog.scenarios :
                catalog.scenarios[n].id.planId # "seed"
                    => PathsOf(catalog.scenarios[n]) \subseteq WrittenPaths(files))
    /\ [][\A r \in DOMAIN run :
            Completes(r) =>
                /\ catalog'.kind = "json"
                /\ \E n \in DOMAIN catalog'.scenarios :
                       LET entry == catalog'.scenarios[n]
                       IN /\ IsNewScenario(entry, run'[r])
                          /\ Len(entry.locations) = planned[r].locations
                          /\ Len(entry.agents) = planned[r].agents
                          /\ \A i \in DOMAIN entry.agents :
                                 Len(entry.agents[i].states) = Len(AGENT_STATES)
                          /\ PathsOf(entry) \subseteq WrittenPaths(files')]_vars

\* a run with locations and agents has completed and its scenario, the last of
\* the catalog, refers to more than ten files
C22_Witness ==
    \E r \in DOMAIN run :
        /\ Completed(run[r])
        /\ catalog.kind = "json"
        /\ Len(catalog.scenarios) >= 2
        /\ catalog.scenarios[Len(catalog.scenarios)].id = run[r].id
        /\ Len(run[r].locationPaths) >= 2
        /\ Len(run[r].agentConfigs) >= 2
        /\ Cardinality(PathsOf(catalog.scenarios[Len(catalog.scenarios)])) > 10

(***************************************************************************)
(* Claims about scenarios.json after a failed run                          *)
(***************************************************************************)
\* C30 (as the specification states it): a run that ends with an error update
\* leaves scenarios.json exactly as it was before the run; the file changes
\* only in the step in which a run completes.
C30_ErrorLeavesCatalog ==
    [][/\ catalog' # catalog => \E r \in DOMAIN run : Completes(r)
       /\ \A r \in DOMAIN run :
              (run[r].err = NULL /\ run'[r].err # NULL) => catalog' = catalog]_vars

(***************************************************************************)
(* Claims about the highlighted location                                   *)
(***************************************************************************)
\* C23 (as the specification states it): in every state of the village the
\* locations VillageLocations renders as active are exactly the character's
\* current location.
C23_ActiveIsCurrent ==
    LET view == VillageLocations(props.gameSize, state.activeLocation,
                                   state.showLabels, scenario)
    IN \A j \in DOMAIN view :
           view[j].isActive <=> (view[j].location.id = state.character.location)

(***************************************************************************)
(* Claims about reloadScenarios                                            *)
(***************************************************************************)
\* every request has been answered and the one the module holds, which after
\* a reload is the one issued after it, was answered with the file
ReloadSettled ==
    /\ page.reloaded
    /\ fetchPromise # NoPromise
    /\ \A r \in DOMAIN requests : requests[r].state # "pending"
    /\ requests[fetchPromise].state = "fulfilled"

\* C24 (as the specification states it): reloadScenarios with mounted consumers
\* issues exactly one new request, and once every outstanding request has been
\* answered the cache and the data of every mounted consumer that has any are
\* the response to the request issued after the reload.
C24_ReloadWins ==
    /\ [](ReloadSettled =>
            /\ cache = requests[fetchPromise].data
            /\ \A c \in Consumers :
                   (consumers[c].phase = "mounted" /\ consumers[c].data # NoData)
                       => consumers[c].data = requests[fetchPromise].data)
    /\ [][(reloadScenarios /\ reloadListeners # {})
              => /\ Len(requests') = Len(requests) + 1
                 /\ fetchPromise' = Len(requests')]_vars

\* the ids of a catalog's entries
IdsOf(data) == {data.scenarios[i] : i \in DOMAIN data.scenarios}

\* C25 (as the specification states it): a consumer whose catalog has loaded
\* has as scenario the entry with the stored id when an id is stored and is in
\* the catalog, the catalog's declared default when no id is stored, and the
\* first entry when the id it would use (the stored one, else the default) is
\* not in the catalog; its scenario is null only while the catalog is not
\* loaded, or when the catalog is empty.
C25_ResolvesStoredDefaultFirst ==
    \A c \in Consumers :
        consumers[c].phase \in {"rendered", "mounted"} =>
            LET data == consumers[c].data
                wanted == IF localStorage # NULL THEN localStorage ELSE data.defaultScenarioId
            IN /\ data # NoData =>
                      ScenarioOf(consumers[c]) =
                          IF wanted \in IdsOf(data) THEN [id |-> wanted]
                          ELSE IF data.scenarios # << >> THEN [id |-> data.scenarios[1]]
                          ELSE NullScenario
               /\ ScenarioOf(consumers[c]) = NullScenario
                      => data = NoData \/ data.scenarios = << >>

(***************************************************************************)
(* Claims about ClaudeCharacter                                            *)
(***************************************************************************)
\* C26 (as the specification states it): for a scenario with at least two
\* agents, the sprite of the sub-agent at list index i is
\* scenario.agents[(i+1) mod agentsCount], and it is an agent of index 1 or
\* higher, never agent 0, the main character's.
C26_SubagentSpriteFromPool ==
    LET agents == characterProps.agents
    IN Len(agents) >= 2 =>
        /\ Len(subagentSprites) = Len(characterProps.subagents)
        /\ \A j \in DOMAIN subagentSprites :
               /\ subagentSprites[j].imageUrl = agents[(j % Len(agents)) + 1]
               /\ subagentSprites[j].imageUrl # MainImage(agents)
               /\ \E a \in 2..Len(agents) : subagentSprites[j].imageUrl = agents[a]

\* C27 (as the specification states it): a prompt sent while selectedSessionId
\* is not null is posted to /api/sessions/<selectedSessionId>/prompt, whether
\* or not that id is in the sessions list, and one sent while it is null to
\* /api/prompt; the Stop button is rendered only while the session with the
\* selected id has status working.
C27_PostsToSelectedSession ==
    /\ [](isWorking =>
              \E j \in DOMAIN sessions :
                  sessions[j].id = selectedSessionId /\ sessions[j].status = "working")
    /\ [][Len(posts') > Len(posts) =>
              posts'[Len(posts')].endpoint =
                  IF selectedSessionId # NULL
                  THEN <<"/api/sessions", selectedSessionId, "prompt">>
                  ELSE <<"/api/prompt">>]_vars

\* the status line of VillageView, without the count of sub-agents
StatusLine(s) ==
    IF s.character.isMoving THEN <<"Walking to", s.character.location>>
    ELSE CASE s.character.state = "idle" -> <<"Idle in Village Square">>
           [] s.character.state = "working" -> <<"Working at", s.character.location>>
           [] s.character.state = "thinking" -> <<"Thinking...">>
           [] OTHER -> << >>

\* C28: in every state the event handlers, FINISH_MOVING and RESET lead to, a
\* character whose state is idle is at the square (or walking to it), so the
\* status line "Idle in Village Square" is shown only with the character at
\* the square.
C28_IdleAtSquare ==
    /\ state.character.state = "idle" => state.character.location = "square"
    /\ StatusLine(state) = <<"Idle in Village Square">> => state.character.location = "square"

\* a stop has sent the character back from a building, and the walk has ended
C28_Witness ==
    /\ state.character.state = "idle"
    /\ state.character.previousLocation \notin {NULL, "square"}
    /\ ~state.character.isMoving
    /\ StatusLine(state) = <<"Idle in Village Square">>

(***************************************************************************)
(* Claims about App                                                        *)
(***************************************************************************)
\* C29 (as the specification states it): whatever the connections, history
\* replies, live events and sound-toggle clicks, no event id occurs twice in
\* the App's events list.
C29_NoDuplicateEvents ==
    \A i, j \in DOMAIN app.events : i # j => app.events[i] # app.events[j]

====
